---- MODULE Spec2Model ----
(***************************************************************************)
(* A model of the field-emission DAQ gradient control code:                *)
(*   - StateMonitor (src/src/state_monitor.py): the interlock aggregator   *)
(*   - Cavity.set_gradient and its software ramp (src/src/fe_daq/cavity.py)*)
(*   - update_cavity_gsets_parallel (src/src/fe_daq/cavity.py)             *)
(*   - the random-sample scan loop (src/src/fe_daq/procedures.py)          *)
(*   - main and its restore steps (src/src/fe_daq/main.py)                 *)
(*   - Cavity.walk_gradient and restore_gset (src/src/fe_daq/cavity.py)    *)
(*   - Zone.check_percent_heat_change (src/src/fe_daq/linac.py)            *)
(*   - the locks of StateMonitor, Zone, Linac and app_config               *)
(* Gradients are fixed-point numbers in units of 0.00001 MV/m, so that the *)
(* 1.001 MV/m step limit and the 0.0001 MV/m rounding allowance of the     *)
(* code are both integers.                                                 *)
(***************************************************************************)
EXTENDS Integers, Sequences, FiniteSets, TLC

VARIABLES
    pv_connected,        \* StateMonitor.__pv_connected: name -> bool
    rf_on,               \* StateMonitor.__rf_on: name -> bool
    hv_bad,              \* StateMonitor.__hv_bad: name -> bool
    threshold_exceeded,  \* StateMonitor.__threshold_exceeded: name -> (threshold, value, kind)
    state_lock,          \* StateMonitor.__state_lock: "free" or the holder
    cs,                  \* the main thread's call of StateMonitor.check_state
    th,                  \* driver threads delivering disconnect/reconnect and RF off/on pairs
    cfg,                 \* per cavity: the attributes fixed after construction
    autoheat,            \* linac.autoheat_mode.value
    gset,                \* per cavity: the value of its GSET PV
    writes,              \* per cavity: the values put to GSET by the set_gradient call in progress
    cav,                 \* per cavity: the set_gradient call in progress (position and locals)
    orc,                 \* the orchestrating thread's call of update_cavity_gsets_parallel
    scan,                \* the call of run_random_sample_random_offset_gradient_scan in progress
    mn,                  \* the call of main in progress
    wg,                  \* the call of walk_gradient or restore_gset in progress
    mon,                 \* the call of StateMonitor.monitor in progress, and its clock
    hc,                  \* the call of Zone.check_percent_heat_change in progress
    lk,                  \* per thread: the lock and map steps left of its call; the other locks
    tc,                  \* per signal: the threshold callback made for it and the last value delivered
    gm,                  \* one cavity's ceilings: requested, hardware (DRVH, ODVH) and effective
    ev,                  \* first_rf_on, and the last connection and RF event delivered per signal
    rs                   \* what get_random_cavity_gradients_changes returned, or its exception

smMaps == <<pv_connected, rf_on, hv_bad, threshold_exceeded>>
smVars == <<pv_connected, rf_on, hv_bad, threshold_exceeded, state_lock>>
cavVars == <<cfg, autoheat, gset, writes, cav>>
auxVars == <<mon, hc, lk, tc, gm, ev, rs>>
runVars == <<scan, mn, wg, auxVars>>
vars == <<pv_connected, rf_on, hv_bad, threshold_exceeded, state_lock, cs, th,
          cfg, autoheat, gset, writes, cav, orc, scan, mn, wg, mon, hc, lk, tc, gm, ev, rs>>

----------------------------------------------------------------------------
(* Bounds of the model *)

\* Number of driver threads of the concurrency scenario
NumThreads == 2
\* Number of (violation; recovery) pairs each driver thread delivers
MaxPairs == 2
\* Longest operator answer typed at a prompt
MaxResponseLen == 2

PVNames == {"pvA", "pvB"}
Threads == 1..NumThreads

\* the (threshold, value, kind) triple a threshold callback records
ThresholdRecords == {<<0, 1, ">">>}

\* Characters an operator may type, and the answers built from them
Chars == {" ", "y", "Y", "n"}
Responses == UNION {[1..k -> Chars] : k \in 0..MaxResponseLen}

----------------------------------------------------------------------------
(* Python dict and str helpers *)

\* d[k] = v on a dict
DictPut(d, k, v) == [x \in (DOMAIN d) \cup {k} |-> IF x = k THEN v ELSE d[x]]

\* del d[k]
DictDel(d, k) == [x \in (DOMAIN d) \ {k} |-> d[x]]

EmptyDict == <<>>

\* str.lower()
str_lower(s) == [i \in DOMAIN s |-> IF s[i] = "Y" THEN "y" ELSE s[i]]

\* str.lstrip()
RECURSIVE str_lstrip(_)
str_lstrip(s) == IF Len(s) > 0 /\ Head(s) = " " THEN str_lstrip(Tail(s)) ELSE s

\* str.startswith('y')
startswith_y(s) == Len(s) > 0 /\ Head(s) = "y"

----------------------------------------------------------------------------
(* StateMonitor: counters and the safety predicate *)

get_disconnected_pv_count == Cardinality({n \in DOMAIN pv_connected : ~pv_connected[n]})

get_rf_off_count == Cardinality({n \in DOMAIN rf_on : ~rf_on[n]})

get_hv_bad_count_mut == Cardinality({n \in DOMAIN hv_bad : ~hv_bad[n]})
get_hv_bad_count == Cardinality({n \in DOMAIN hv_bad : hv_bad[n]})

get_threshold_exceeded_count == Cardinality(DOMAIN threshold_exceeded)

daq_good ==
    /\ get_rf_off_count = 0
    /\ get_disconnected_pv_count = 0
    /\ get_hv_bad_count = 0
    /\ get_threshold_exceeded_count = 0

----------------------------------------------------------------------------
(* StateMonitor: record operations.  Each takes the state lock for its     *)
(* whole body, so each is one step, enabled when the lock is free.         *)

clear_state ==
    /\ state_lock = "free"
    /\ pv_connected' = EmptyDict
    /\ rf_on' = EmptyDict
    /\ hv_bad' = EmptyDict
    /\ threshold_exceeded' = EmptyDict
    /\ UNCHANGED state_lock

threshold_exceeded_op(pvname, rec) ==
    /\ state_lock = "free"
    /\ threshold_exceeded' = DictPut(threshold_exceeded, pvname, rec)
    /\ UNCHANGED <<pv_connected, rf_on, hv_bad, state_lock>>

threshold_recovered(pvname) ==
    /\ state_lock = "free"
    /\ threshold_exceeded' =
          IF get_threshold_exceeded_count > 0 /\ pvname \in DOMAIN threshold_exceeded
          THEN DictDel(threshold_exceeded, pvname)
          ELSE threshold_exceeded
    /\ UNCHANGED <<pv_connected, rf_on, hv_bad, state_lock>>

pv_disconnected(pvname) ==
    /\ state_lock = "free"
    /\ pv_connected' = DictPut(pv_connected, pvname, FALSE)
    /\ UNCHANGED <<rf_on, hv_bad, threshold_exceeded, state_lock>>

pv_reconnected_mut(pvname) ==
    /\ state_lock = "free"
    /\ UNCHANGED <<pv_connected, rf_on, hv_bad, threshold_exceeded, state_lock>>
pv_reconnected(pvname) ==
    /\ state_lock = "free"
    /\ pv_connected' = DictPut(pv_connected, pvname, TRUE)
    /\ UNCHANGED <<rf_on, hv_bad, threshold_exceeded, state_lock>>

hv_has_problem(pvname) ==
    /\ state_lock = "free"
    /\ hv_bad' = DictPut(hv_bad, pvname, TRUE)
    /\ UNCHANGED <<pv_connected, rf_on, threshold_exceeded, state_lock>>

hv_good(pvname) ==
    /\ state_lock = "free"
    /\ hv_bad' = DictPut(hv_bad, pvname, FALSE)
    /\ UNCHANGED <<pv_connected, rf_on, threshold_exceeded, state_lock>>

rf_turned_off(pvname) ==
    /\ state_lock = "free"
    /\ rf_on' = DictPut(rf_on, pvname, FALSE)
    /\ UNCHANGED <<pv_connected, hv_bad, threshold_exceeded, state_lock>>

rf_turned_on(pvname) ==
    /\ state_lock = "free"
    /\ rf_on' = DictPut(rf_on, pvname, TRUE)
    /\ UNCHANGED <<pv_connected, hv_bad, threshold_exceeded, state_lock>>

----------------------------------------------------------------------------
(* StateMonitor.check_state, called by the main thread.  The lock is taken *)
(* for the whole body; when the state is bad and user_input is set, the    *)
(* body blocks in input() with the lock held until the operator answers.   *)

CsIdle == [pc |-> "idle", user_input |-> FALSE, prompted |-> FALSE, response |-> <<>>]

\* Entry of check_state up to its return, its raise, or the input() call
check_state_mut(user_input) ==
    /\ state_lock = "free"
    /\ cs.pc # "prompt"
    /\ IF daq_good
       THEN /\ cs' = [pc |-> "returned", user_input |-> user_input,
                      prompted |-> FALSE, response |-> <<>>]
            /\ UNCHANGED smVars
       ELSE /\ cs' = [pc |-> "prompt", user_input |-> user_input,
                      prompted |-> TRUE, response |-> <<>>]
            /\ state_lock' = "main"
            /\ UNCHANGED smMaps
check_state(user_input) ==
    /\ state_lock = "free"
    /\ cs.pc # "prompt"
    /\ IF daq_good
       THEN /\ cs' = [pc |-> "returned", user_input |-> user_input,
                      prompted |-> FALSE, response |-> <<>>]
            /\ UNCHANGED smVars
       ELSE IF user_input
            THEN /\ cs' = [pc |-> "prompt", user_input |-> user_input,
                           prompted |-> TRUE, response |-> <<>>]
                 /\ state_lock' = "main"
                 /\ UNCHANGED smMaps
            ELSE \* response = 'n': raise RuntimeError("User indicated unrecoverable error.")
                 /\ cs' = [pc |-> "raised", user_input |-> user_input,
                           prompted |-> FALSE, response |-> <<"n">>]
                 /\ UNCHANGED smVars

\* The operator's answer to "Continue (n|Y): " and the end of check_state
check_state_answer(response) ==
    /\ cs.pc = "prompt"
    /\ state_lock = "main"
    /\ cs' = [cs EXCEPT !.pc = IF startswith_y(str_lstrip(str_lower(response)))
                               THEN "returned" ELSE "raised",
                        !.response = response]
    /\ state_lock' = "free"
    /\ UNCHANGED smMaps

----------------------------------------------------------------------------
(* Driver threads: each delivers MaxPairs pairs, a violation followed by   *)
(* its recovery, on a name of its choice (test_daq_good).                  *)

ThIdle == [todo |-> MaxPairs, kind |-> "none", name |-> "none"]

thread_disconnect(t, n) ==
    /\ th[t].kind = "none" /\ th[t].todo > 0
    /\ pv_disconnected(n)
    /\ th' = [th EXCEPT ![t] = [todo |-> @.todo - 1, kind |-> "conn", name |-> n]]
    /\ UNCHANGED <<cs, cavVars, runVars, orc>>

thread_reconnect(t) ==
    /\ th[t].kind = "conn"
    /\ pv_reconnected(th[t].name)
    /\ th' = [th EXCEPT ![t] = [@ EXCEPT !.kind = "none", !.name = "none"]]
    /\ UNCHANGED <<cs, cavVars, runVars, orc>>

thread_rf_off(t, n) ==
    /\ th[t].kind = "none" /\ th[t].todo > 0
    /\ rf_turned_off(n)
    /\ th' = [th EXCEPT ![t] = [todo |-> @.todo - 1, kind |-> "rf", name |-> n]]
    /\ UNCHANGED <<cs, cavVars, runVars, orc>>

thread_rf_on(t) ==
    /\ th[t].kind = "rf"
    /\ rf_turned_on(th[t].name)
    /\ th' = [th EXCEPT ![t] = [@ EXCEPT !.kind = "none", !.name = "none"]]
    /\ UNCHANGED <<cs, cavVars, runVars, orc>>

ThreadsDone == \A t \in Threads : th[t].todo = 0 /\ th[t].kind = "none"

\* The check the main thread makes once the threads have been joined
final_check_state ==
    /\ ThreadsDone
    /\ cs.pc = "idle"
    /\ check_state(FALSE)
    /\ UNCHANGED <<th, cavVars, runVars, orc>>

----------------------------------------------------------------------------
(* Cavity: attributes, and the checks of a requested gradient.             *)

Cavities == {"c1", "c2", "c3"}

\* The value a PV read returns when the read fails
None == -1000000000

\* abs(gset - current) > 1.001 is the step too large for a call without force
StepLimit == 100100
\* a request less than 0.0001 above gset_max is taken to be gset_max
RoundingSlack == 10
\* math.fabs(gset - self.gmes.value) < gradient_epsilon, gradient_epsilon = 0.05
GradientEpsilon == 5000
\* StateMonitor.monitor(duration=15, ...) after a failed read of GSET
GsetRetryWait == 15

Abs(x) == IF x < 0 THEN -x ELSE x

\* The cryo thresholds a Zone and a Linac are constructed with
CryoConfig == [jt_max |-> 90, jt_recovery_margin |-> 2,
               linac_pressure_min |-> 30, linac_pressure_max |-> 40, lp_recovery_margin |-> 2,
               heater_margin_min |-> 2, heater_recovery_margin |-> 1,
               detune_max |-> 10]

\* A cavity of the LLRF 2.0 family (gset_min = 5 MV/m) with gset_max = 10 MV/m
\* and a configured ramp step (LLRF2_gmes_step_size) of 0.5 MV/m
BaseConfig == [controls |-> "2.0", fcc_firmware_version |-> 2018,
               gset_min |-> 500000, gset_max |-> 1000000,
               bypassed_eff |-> FALSE, tuner_bad |-> FALSE,
               gmes_step_size |-> 50000, tuner_recovery_margin |-> 2]

\* Cavity._validate_requested_gradient: the exception it raises, or "none".
\* current is what self.gset.get(use_monitor=False) returns.
\* abs(gset - current) > 1.001 on binary floats: at a distance of exactly 1.001
\* the outcome follows the rounding of the subtraction (8.001 - 7.0 compares
\* below 1.001, 6.001 - 5.0 above it), so there it is read from the environment
step_too_big(g, current, rounds_up) ==
    \/ Abs(g - current) > StepLimit
    \/ Abs(g - current) = StepLimit /\ rounds_up

\* _validate_requested_gradient: the exception it raises, "none" if it returns
validate_requested_gradient_nomin(c, g, force, current, rounds_up) ==
    IF autoheat # 1 THEN "RuntimeError"
    ELSE IF cfg[c].tuner_bad THEN "RuntimeError"
    ELSE IF g # 0 /\ cfg[c].bypassed_eff THEN "ValueError"
    ELSE IF g > cfg[c].gset_max THEN "ValueError"
    ELSE IF ~force /\ current = None THEN "TypeError"
    ELSE IF ~force /\ step_too_big(g, current, rounds_up) THEN "ValueError"
    ELSE "none"
validate_requested_gradient_noforce(c, g, force, current, rounds_up) ==
    IF autoheat # 1 THEN "RuntimeError"
    ELSE IF cfg[c].tuner_bad THEN "RuntimeError"
    ELSE IF g # 0 /\ cfg[c].bypassed_eff THEN "ValueError"
    ELSE IF g # 0 /\ g < cfg[c].gset_min THEN "ValueError"
    ELSE IF g > cfg[c].gset_max THEN "ValueError"
    ELSE IF current = None THEN "TypeError"
    ELSE IF step_too_big(g, current, rounds_up) THEN "ValueError"
    ELSE "none"
validate_requested_gradient_forced(c, g, force, current, rounds_up) ==
    IF force THEN "none"
    ELSE IF autoheat # 1 THEN "RuntimeError"
    ELSE IF cfg[c].tuner_bad THEN "RuntimeError"
    ELSE IF g # 0 /\ cfg[c].bypassed_eff THEN "ValueError"
    ELSE IF g # 0 /\ g < cfg[c].gset_min THEN "ValueError"
    ELSE IF g > cfg[c].gset_max THEN "ValueError"
    ELSE IF current = None THEN "TypeError"
    ELSE IF step_too_big(g, current, rounds_up) THEN "ValueError"
    ELSE "none"
validate_requested_gradient(c, g, force, current, rounds_up) ==
    IF autoheat # 1 THEN "RuntimeError"
    ELSE IF cfg[c].tuner_bad THEN "RuntimeError"
    ELSE IF g # 0 /\ cfg[c].bypassed_eff THEN "ValueError"
    ELSE IF g # 0 /\ g < cfg[c].gset_min THEN "ValueError"
    ELSE IF g > cfg[c].gset_max THEN "ValueError"
    ELSE IF ~force /\ current = None THEN "TypeError"
    ELSE IF ~force /\ step_too_big(g, current, rounds_up) THEN "ValueError"
    ELSE "none"

\* set_gradient: "if we're close, just treat it like a set to the max"; at exactly
\* gset_max + 0.0001 the outcome again follows the rounding of the subtraction
clamp_to_gset_max(c, g, rounds_down) ==
    IF /\ g > cfg[c].gset_max
       /\ \/ (g - RoundingSlack) < cfg[c].gset_max
          \/ (g - RoundingSlack) = cfg[c].gset_max /\ rounds_down
    THEN cfg[c].gset_max ELSE g

\* LLRF1Cavity / LLRF2Cavity / LLRF3Cavity.set_gradient: the wait_for_ramp
\* they pass on to _do_gradient_ramping
ramp_wait_passed_on(c, wait_for_ramp) ==
    IF cfg[c].controls = "1.0" THEN FALSE
    ELSE IF cfg[c].controls = "2.0" /\ cfg[c].fcc_firmware_version > 2019 THEN FALSE
    ELSE wait_for_ramp

\* is_tuning_required of the three families; detune is TDETA or CFQE
is_tuning_required_nomargin(c, margin, detune) ==
    IF cfg[c].controls = "2.0"
    THEN Abs(detune) >= CryoConfig.detune_max
    ELSE Abs(detune) > CryoConfig.detune_max
is_tuning_required(c, margin, detune) ==
    IF cfg[c].controls = "2.0"
    THEN Abs(detune) >= (CryoConfig.detune_max - margin)
    ELSE Abs(detune) > (CryoConfig.detune_max - margin)

\* is_gradient_ramping of the three families: gmes against gset (1.0), bit 11
\* of STAT1 (2.0), bit 15 of STAT1 (3.0)
is_gradient_ramping(c, gmes_delta, stat1) ==
    IF cfg[c].controls = "1.0" THEN Abs(gmes_delta) > 30000
    ELSE IF cfg[c].controls = "2.0" THEN (stat1 \div 2048) % 2 = 1
    ELSE (stat1 \div 32768) % 2 = 1

\* Zone.check_jt_valve
check_jt_valve(threshold, value) == value >= threshold

\* Linac.check_linac_pressure
check_linac_pressure(min_val, max_val, value) == value > max_val \/ value < min_val

\* Linac.check_heater_margin
check_heater_margin_never(threshold, value) == FALSE
check_heater_margin(threshold, value) == value <= threshold

\* the linac pressure is within its operating band
InPressureBand(value) ==
    value >= CryoConfig.linac_pressure_min /\ value <= CryoConfig.linac_pressure_max

\* Values the environment can present on the signals the waits read
DetuneVals == {-11, 7, 8, 9, 10}
JtVals == {87, 88, 89, 90}
PressureVals == {29, 31, 32, 38, 39, 41}
HeaterVals == {2, 3, 4}
Stat1Vals == {0, 2048, 32768}
GmesDeltas == {0, 4000, 35000}

CavIdle == [pc |-> "idle", req |-> 0, gset |-> 0, settle_time |-> 0, wait_for_ramp |-> FALSE,
            force |-> FALSE, interactive |-> FALSE, current |-> 0, step_dir |-> 0,
            actual_gset |-> 0, final |-> FALSE, mon_ret |-> "none",
            exc |-> "none", where |-> "none",
            checked |-> {}, detune |-> "none", ramp_elapsed |-> 0, recovered |-> FALSE]

Raise(c, exc, where) ==
    cav' = [cav EXCEPT ![c] = [@ EXCEPT !.pc = "raised", !.exc = exc, !.where = where]]

Goto(c, pc) == cav' = [cav EXCEPT ![c] = [@ EXCEPT !.pc = pc]]

\* The conditions _do_ramp_checks waits on
RampChecks == {"tuner", "jt", "pressure", "heater"}

\* cav[c].checked: the conditions read within their operating limit since the
\* last write to GSET (or since the call started); a reading outside takes the
\* condition out again
Checked(c, name, in_limit) ==
    IF in_limit THEN cav[c].checked \cup {name} ELSE cav[c].checked \ {name}

\* cav[c].detune: where the detune reading lies on which wait_for_tuning
\* started to wait or returned: above detune_max, at it, between it and
\* detune_max less the recovery margin, at that level, or below it
detune_zone(c, detune) ==
    LET hi == CryoConfig.detune_max
        lo == CryoConfig.detune_max - cfg[c].tuner_recovery_margin
    IN IF Abs(detune) > hi THEN "above"
       ELSE IF Abs(detune) = hi THEN "at_max"
       ELSE IF Abs(detune) > lo THEN "between"
       ELSE IF Abs(detune) = lo THEN "at_recovery"
       ELSE "quiet"

\* a check of _do_ramp_checks returns, or starts to wait, on a reading
Checkpoint(c, pc, name, in_limit, zone) ==
    cav' = [cav EXCEPT ![c] = [@ EXCEPT !.pc = pc, !.checked = Checked(c, name, in_limit),
                                        !.detune = zone]]

\* every Cavity step leaves these alone
CavFrame == UNCHANGED <<smVars, cs, th, cfg, autoheat, orc, runVars>>

\* Entry of set_gradient: the rounding clamp and _validate_requested_gradient
set_gradient(c, g, settle_time, wait_for_ramp, force, interactive, current, rounds_up, rounds_down) ==
    /\ cav[c].pc = "idle"
    /\ LET g2 == clamp_to_gset_max(c, g, rounds_down)
           err == validate_requested_gradient(c, g2, force, current, rounds_up)
       IN cav' = [cav EXCEPT ![c] =
                    [CavIdle EXCEPT !.pc = IF err = "none" THEN "get_dir" ELSE "raised",
                                    !.req = g, !.gset = g2, !.settle_time = settle_time,
                                    !.wait_for_ramp = ramp_wait_passed_on(c, wait_for_ramp),
                                    !.force = force, !.interactive = interactive,
                                    !.current = current,
                                    !.exc = err,
                                    !.where = IF err = "none" THEN "none" ELSE "validate"]]
    /\ writes' = [writes EXCEPT ![c] = <<>>]
    /\ UNCHANGED gset
    /\ CavFrame

----------------------------------------------------------------------------
(* Cavity._do_gradient_ramping and what it calls, one step per poll.       *)
(* Signal values and "has the timeout elapsed" are read from the           *)
(* environment at each poll.                                               *)

\* while abs(gset - actual_gset) > self.gmes_step_size
more_steps(c, actual) == Abs(cav[c].gset - actual) > cfg[c].gmes_step_size

\* where StateMonitor.monitor(duration, ...) starts: one check_state before the
\* sleep loop when duration > 0, and the check_state after it
monitor_entry_single(duration) == "mon_last"
monitor_entry(duration) ==
    IF duration # None /\ duration > 0 THEN "mon_first" ELSE "mon_last"

\* _get_step_direction: one pass of its loop
get_step_direction(c, value) ==
    /\ cav[c].pc = "get_dir"
    /\ IF value = None
       THEN cav' = [cav EXCEPT ![c] = [@ EXCEPT !.pc = monitor_entry(GsetRetryWait),
                                                !.mon_ret = "get_dir"]]
       ELSE cav' = [cav EXCEPT ![c] = [@ EXCEPT !.pc = "tune_check",
                                                !.step_dir = IF cav[c].gset >= value THEN 1 ELSE -1,
                                                !.actual_gset = value,
                                                !.final = ~more_steps(c, value)]]
    /\ UNCHANGED <<gset, writes>>
    /\ CavFrame

\* StateMonitor.check_state(user_input=False) as called by monitor: under the lock
monitor_first(c) ==
    /\ cav[c].pc = "mon_first"
    /\ state_lock = "free"
    /\ IF daq_good THEN Goto(c, "mon_last") ELSE Raise(c, "RuntimeError", "monitor")
    /\ UNCHANGED <<gset, writes>>
    /\ CavFrame

monitor_last_unchecked(c) ==
    /\ cav[c].pc = "mon_last"
    /\ state_lock = "free"
    /\ IF cav[c].mon_ret = "get_dir" THEN Goto(c, "get_dir")
       ELSE IF cav[c].final THEN Goto(c, "done")
       ELSE Goto(c, "reread")
    /\ UNCHANGED <<gset, writes>>
    /\ CavFrame
monitor_last(c) ==
    /\ cav[c].pc = "mon_last"
    /\ state_lock = "free"
    /\ IF ~daq_good THEN Raise(c, "RuntimeError", "monitor")
       ELSE IF cav[c].mon_ret = "get_dir" THEN Goto(c, "get_dir")
       ELSE IF cav[c].final THEN Goto(c, "done")
       ELSE Goto(c, "reread")
    /\ UNCHANGED <<gset, writes>>
    /\ CavFrame

\* _do_ramp_checks calls wait_for_tuning(tune_timeout=tune_timeout): interactive
\* keeps its default
ramp_checks_interactive == TRUE

\* wait_for_tuning: if self.is_tuning_required(margin=0)
tune_check(c, detune) ==
    /\ cav[c].pc = "tune_check"
    /\ IF is_tuning_required(c, 0, detune)
       THEN Checkpoint(c, "tune_wait", "tuner", Abs(detune) <= CryoConfig.detune_max,
                       detune_zone(c, detune))
       ELSE Checkpoint(c, "jt_check", "tuner", Abs(detune) <= CryoConfig.detune_max,
                       detune_zone(c, detune))
    /\ UNCHANGED <<gset, writes>>
    /\ CavFrame

\* wait_for_tuning: one pass of while self.is_tuning_required(), up to the input() call
tune_poll(c, detune, timed_out) ==
    /\ cav[c].pc = "tune_wait"
    /\ IF ~is_tuning_required(c, cfg[c].tuner_recovery_margin, detune)
       THEN Checkpoint(c, "jt_check", "tuner", Abs(detune) <= CryoConfig.detune_max,
                       detune_zone(c, detune))
       ELSE IF timed_out THEN Goto(c, "tune_prompt")
       ELSE UNCHANGED cav
    /\ UNCHANGED <<gset, writes>>
    /\ CavFrame

\* wait_for_tuning: the operator's answer to "Continue waiting? (n|y): "
tune_prompt_answer(c, response) ==
    /\ cav[c].pc = "tune_prompt"
    /\ IF ramp_checks_interactive
       THEN IF ~startswith_y(str_lower(str_lstrip(response)))
            THEN Raise(c, "RuntimeError", "tuner")
            ELSE Goto(c, "tune_wait")
       ELSE Raise(c, "RuntimeError", "tuner")
    /\ UNCHANGED <<gset, writes>>
    /\ CavFrame

\* _wait_for_jt
jt_check(c, value) ==
    /\ cav[c].pc = "jt_check"
    /\ IF check_jt_valve(CryoConfig.jt_max, value)
       THEN Checkpoint(c, "jt_wait", "jt", value < CryoConfig.jt_max, "none")
       ELSE Checkpoint(c, "lp_check", "jt", value < CryoConfig.jt_max, "none")
    /\ UNCHANGED <<gset, writes>>
    /\ CavFrame

jt_poll_forever(c, value, timed_out) ==
    /\ cav[c].pc = "jt_wait"
    /\ LET wait_for_jt == check_jt_valve(CryoConfig.jt_max - CryoConfig.jt_recovery_margin, value)
       IN IF wait_for_jt THEN UNCHANGED cav
          ELSE Checkpoint(c, "lp_check", "jt", value < CryoConfig.jt_max, "none")
    /\ UNCHANGED <<gset, writes>>
    /\ CavFrame
\* (cav[c].recovered notes that the poll on which the wait raised had read the
\* valve at or below the recovery point)
jt_poll(c, value, timed_out) ==
    /\ cav[c].pc = "jt_wait"
    /\ LET wait_for_jt == check_jt_valve(CryoConfig.jt_max - CryoConfig.jt_recovery_margin, value)
       IN IF timed_out
          THEN cav' = [cav EXCEPT ![c] = [@ EXCEPT !.pc = "raised", !.exc = "RuntimeError",
                                                   !.where = "jt", !.recovered = ~wait_for_jt]]
          ELSE IF wait_for_jt THEN UNCHANGED cav
          ELSE Checkpoint(c, "lp_check", "jt", value < CryoConfig.jt_max, "none")
    /\ UNCHANGED <<gset, writes>>
    /\ CavFrame

\* _wait_for_linac_pressure
lp_check(c, value) ==
    /\ cav[c].pc = "lp_check"
    /\ IF check_linac_pressure(CryoConfig.linac_pressure_min, CryoConfig.linac_pressure_max, value)
       THEN Checkpoint(c, "lp_wait", "pressure", InPressureBand(value), "none")
       ELSE Checkpoint(c, "hm_check", "pressure", InPressureBand(value), "none")
    /\ UNCHANGED <<gset, writes>>
    /\ CavFrame

lp_poll(c, value, timed_out) ==
    /\ cav[c].pc = "lp_wait"
    /\ LET waiting == check_linac_pressure(
                          CryoConfig.linac_pressure_min + CryoConfig.lp_recovery_margin,
                          CryoConfig.linac_pressure_max - CryoConfig.lp_recovery_margin, value)
       IN IF ~waiting THEN Checkpoint(c, "hm_check", "pressure", InPressureBand(value), "none")
          ELSE IF timed_out THEN Raise(c, "RuntimeError", "pressure")
          ELSE UNCHANGED cav
    /\ UNCHANGED <<gset, writes>>
    /\ CavFrame

\* _wait_for_heater_margins
hm_check(c, value) ==
    /\ cav[c].pc = "hm_check"
    /\ IF check_heater_margin(CryoConfig.heater_margin_min, value)
       THEN Checkpoint(c, "hm_wait", "heater", value > CryoConfig.heater_margin_min, "none")
       ELSE Checkpoint(c, "put", "heater", value > CryoConfig.heater_margin_min, "none")
    /\ UNCHANGED <<gset, writes>>
    /\ CavFrame

hm_poll(c, value, timed_out) ==
    /\ cav[c].pc = "hm_wait"
    /\ LET waiting == check_heater_margin(
                          CryoConfig.heater_margin_min + CryoConfig.heater_recovery_margin, value)
       IN IF ~waiting
          THEN Checkpoint(c, "put", "heater", value > CryoConfig.heater_margin_min, "none")
          ELSE IF timed_out THEN Raise(c, "RuntimeError", "heater")
          ELSE UNCHANGED cav
    /\ UNCHANGED <<gset, writes>>
    /\ CavFrame

\* the value _do_gradient_ramping hands to _set_gradient
next_gset_direct(c) == cav[c].gset
next_gset_mut(c) == cav[c].actual_gset + (cav[c].step_dir * cfg[c].gmes_step_size)
next_gset(c) ==
    IF cav[c].final THEN cav[c].gset
    ELSE cav[c].actual_gset + (cav[c].step_dir * cfg[c].gmes_step_size)

\* the settle time _do_gradient_ramping hands to _set_gradient
step_settle_time(c) == IF cav[c].final THEN cav[c].settle_time ELSE 0

\* _set_gradient: self.gset.put(gset)
put_gset(c) ==
    /\ cav[c].pc = "put"
    /\ gset' = [gset EXCEPT ![c] = next_gset(c)]
    /\ writes' = [writes EXCEPT ![c] = Append(@, next_gset(c))]
    /\ cav' = [cav EXCEPT ![c] = [@ EXCEPT !.pc = IF cav[c].wait_for_ramp THEN "ramp_watch"
                                                  ELSE monitor_entry(step_settle_time(c)),
                                           !.mon_ret = "after_put",
                                           !.checked = {}]]
    /\ CavFrame

\* _set_gradient: one pass of the loop that watches for a ramp to start
ramp_watch(c, rf_is_on, gmes_delta, stat1, window_over) ==
    /\ cav[c].pc = "ramp_watch"
    /\ IF ~rf_is_on THEN Raise(c, "RuntimeError", "rf_off")
       ELSE IF is_gradient_ramping(c, gmes_delta, stat1)
            THEN cav' = [cav EXCEPT ![c] = [@ EXCEPT !.pc = "ramp_wait", !.ramp_elapsed = 0]]
       ELSE IF Abs(gmes_delta) < GradientEpsilon \/ window_over
            THEN Goto(c, monitor_entry(step_settle_time(c)))
       ELSE UNCHANGED cav
    /\ UNCHANGED <<gset, writes>>
    /\ CavFrame

\* ramp_timeout and the length of one time.sleep(0.1) of the loop, in sleeps;
\* cav[c].ramp_elapsed is datetime.now() - start_ramp, counted up to RampTimeout + 1
RampTimeout == 1
RampSleeps == {1, 2}

ramp_clock(c, slept) ==
    IF cav[c].ramp_elapsed + slept > RampTimeout THEN RampTimeout + 1
    ELSE cav[c].ramp_elapsed + slept

\* _set_gradient: one pass of while self.is_gradient_ramping()
ramp_poll(c, rf_is_on, gmes_delta, stat1, slept) ==
    /\ cav[c].pc = "ramp_wait"
    /\ IF ~rf_is_on THEN Raise(c, "RuntimeError", "rf_off")
       ELSE IF ~is_gradient_ramping(c, gmes_delta, stat1)
            THEN Goto(c, monitor_entry(step_settle_time(c)))
       ELSE IF ramp_clock(c, slept) > RampTimeout
            THEN IF cav[c].interactive
                 THEN cav' = [cav EXCEPT ![c] = [@ EXCEPT !.pc = "ramp_prompt",
                                                          !.ramp_elapsed = ramp_clock(c, slept)]]
                 ELSE Raise(c, "RuntimeError", "ramp")
       ELSE cav' = [cav EXCEPT ![c] = [@ EXCEPT !.ramp_elapsed = ramp_clock(c, slept)]]
    /\ UNCHANGED <<gset, writes>>
    /\ CavFrame

\* _set_gradient: the operator's answer to "Continue? (n|y): "; on an answer to
\* keep going, start_ramp = datetime.now()
ramp_restart_kept(c) == cav[c].ramp_elapsed
ramp_restart(c) == 0
ramp_prompt_answer(c, response) ==
    /\ cav[c].pc = "ramp_prompt"
    /\ IF ~startswith_y(str_lower(str_lstrip(response)))
       THEN Raise(c, "RuntimeError", "ramp")
       ELSE cav' = [cav EXCEPT ![c] = [@ EXCEPT !.pc = "ramp_wait",
                                                !.ramp_elapsed = ramp_restart(c)]]
    /\ UNCHANGED <<gset, writes>>
    /\ CavFrame

\* _do_gradient_ramping: actual_gset = self.gset.get(use_monitor=False) and the loop test
reread_gset(c, value) ==
    /\ cav[c].pc = "reread"
    /\ IF value = None THEN Raise(c, "TypeError", "ramp")
       ELSE cav' = [cav EXCEPT ![c] = [@ EXCEPT !.pc = "tune_check",
                                                !.actual_gset = value,
                                                !.final = ~more_steps(c, value)]]
    /\ UNCHANGED <<gset, writes>>
    /\ CavFrame

\* what a read of the cavity's GSET PV can return
GsetReads(c) == {gset[c], None}

----------------------------------------------------------------------------
(* update_cavity_gsets_parallel, run by the main thread, and its workers    *)
(* (update_cavity_gset on a ThreadPoolExecutor).                            *)

OrcIdle == [pc |-> "idle", cavs |-> <<>>, new_gsets |-> [c \in Cavities |-> 0],
            settle |-> 0, force |-> FALSE, status |-> "none", failed |-> <<>>,
            pending |-> {}, exc |-> "none"]

SeqToSet(q) == {q[i] : i \in 1..Len(q)}

DelAt(q, idx) == [i \in 1..(Len(q) - 1) |-> IF i < idx THEN q[i] ELSE q[i + 1]]

\* for idx, cav2 in enumerate(failed): if cav2.name == cav.name: del failed[idx]
\* (the iteration goes on at idx + 1 of the shortened list)
RECURSIVE remove_from_failed(_, _, _)
remove_from_failed(failed, name, idx) ==
    IF idx > Len(failed) THEN failed
    ELSE IF failed[idx] = name THEN remove_from_failed(DelAt(failed, idx), name, idx + 1)
    ELSE remove_from_failed(failed, name, idx + 1)

\* the wait_for_ramp default of the family's set_gradient
default_wait_for_ramp(c) == cfg[c].controls # "3.0"

\* Entry of update_cavity_gsets_parallel up to the end of StateMonitor.check_state()
\* or its input() call
update_cavity_gsets_parallel(cavs, new_gsets, settle, force) ==
    /\ orc.pc = "idle"
    /\ cs.pc = "idle"
    /\ check_state(TRUE)
    /\ orc' = [OrcIdle EXCEPT !.pc = "check", !.cavs = cavs, !.new_gsets = new_gsets,
                              !.settle = settle, !.force = force,
                              !.status = "FAIL", !.failed = cavs]
    /\ UNCHANGED <<th, cavVars, runVars>>

\* the operator answers the prompt of that check_state
orchestrator_check_answer(response) ==
    /\ orc.pc = "check"
    /\ check_state_answer(response)
    /\ UNCHANGED <<th, cavVars, runVars, orc>>

\* After check_state: its exception ends the call; otherwise the pool is made
\* (ThreadPoolExecutor raises ValueError for max_workers <= 0) and one worker
\* per cavity is submitted
dispatch_workers_mut ==
    /\ orc.pc = "check"
    /\ cs.pc \in {"returned", "raised"}
    /\ IF Len(orc.cavs) <= 0
       THEN orc' = [orc EXCEPT !.pc = "returned", !.status = "FAIL", !.exc = "ValueError"]
       ELSE orc' = [orc EXCEPT !.pc = "collect", !.pending = SeqToSet(orc.cavs)]
    /\ UNCHANGED <<smVars, cs, th, cavVars, runVars>>
dispatch_workers ==
    /\ orc.pc = "check"
    /\ cs.pc \in {"returned", "raised"}
    /\ IF cs.pc = "raised"
       THEN orc' = [orc EXCEPT !.pc = "returned", !.status = "FAIL", !.exc = "RuntimeError"]
       ELSE IF Len(orc.cavs) <= 0
       THEN orc' = [orc EXCEPT !.pc = "returned", !.status = "FAIL", !.exc = "ValueError"]
       ELSE orc' = [orc EXCEPT !.pc = "collect", !.pending = SeqToSet(orc.cavs)]
    /\ UNCHANGED <<smVars, cs, th, cavVars, runVars>>

\* update_cavity_gset on a pool thread: the call of cavity.set_gradient
update_cavity_gset(c, current, rounds_up, rounds_down) ==
    /\ orc.pc = "collect"
    /\ c \in orc.pending
    /\ set_gradient(c, orc.new_gsets[c], orc.settle, default_wait_for_ramp(c), orc.force,
                    FALSE, current, rounds_up, rounds_down)

worker_succeeded_any(c) == cav[c].pc \in {"done", "raised"}
\* what update_cavity_gset returns once set_gradient has returned or raised
worker_succeeded(c) == cav[c].pc = "done"

worker_finished(c) == cav[c].pc \in {"done", "raised"}

\* as_completed yields the future of cavity c
collect_result(c) ==
    /\ orc.pc = "collect"
    /\ c \in orc.pending
    /\ worker_finished(c)
    /\ orc' = [orc EXCEPT !.pending = @ \ {c},
                          !.failed = IF worker_succeeded(c)
                                     THEN remove_from_failed(orc.failed, c, 1) ELSE @]
    /\ UNCHANGED <<smVars, cs, th, cavVars, runVars>>

\* the return without the wait for the pool's threads
return_status_early ==
    /\ orc.pc = "collect"
    /\ orc' = [orc EXCEPT !.pc = "returned",
                          !.status = IF Len(orc.failed) > 0 THEN "FAIL" ELSE "SUCCESS"]
    /\ UNCHANGED <<smVars, cs, th, cavVars, runVars>>
\* all futures seen: the status and the return
return_status ==
    /\ orc.pc = "collect"
    /\ orc.pending = {}
    /\ orc' = [orc EXCEPT !.pc = "returned",
                          !.status = IF Len(orc.failed) > 0 THEN "FAIL" ELSE "SUCCESS"]
    /\ UNCHANGED <<smVars, cs, th, cavVars, runVars>>

----------------------------------------------------------------------------
(* The random-sample scan: run_random_sample_random_offset_gradient_scan   *)
(* (procedures.py) and collect_data_at_gradients (cavity.py).  A call of   *)
(* update_cavity_gsets_parallel is summarised by the result it returns and *)
(* by the cavities whose GSET its workers wrote.                           *)

\* Largest n_samples of a scan
MaxSamples == 2

\* the cavities random.sample may draw: n_cavities is 0 or 2
ScanCavs == {"c1", "c2"}
SampleSets == {{}, ScanCavs}

\* str.startswith('n')
startswith_n(s) == Len(s) > 0 /\ Head(s) = "n"

\* var = tk.StringVar("R") is the first Tk call of the dialog: "R" is taken as
\* the master widget and Variable.__init__ raises before any window exists
user_alert_update_gsets_fail(failed) == "AttributeError"

\* askyesno(..., width=160): tk_messageBox rejects the option -width, so the
\* call raises before the question is shown
user_alert_scan_paused == "TclError"

update_gsets_failure_prompt(failed) ==
    IF Cardinality(failed) > 0 THEN user_alert_update_gsets_fail(failed) ELSE "SUCCESS"

\* What one call of update_cavity_gsets_parallel(cavs, ...) can return, with the
\* cavities whose GSET a worker wrote: a worker that succeeded wrote its GSET, a
\* worker that failed may have written some ramp steps first, and an empty batch
\* returns (FAIL, []) from the exception handler
update_cavity_gsets_parallel_results(cavs) ==
    IF cavs = {} THEN {[status |-> "FAIL", failed |-> {}, written |-> {}]}
    ELSE {[status |-> IF p[1] = {} THEN "SUCCESS" ELSE "FAIL", failed |-> p[1], written |-> p[2]] :
             p \in {q \in (SUBSET cavs) \X (SUBSET cavs) : (cavs \ q[1]) \subseteq q[2]}}

\* the zone of a cavity of the scan: cav.zone
ScanZones == {"z1", "z2"}
zone_of(c) == IF c = "c1" THEN "z1" ELSE "z2"

\* zones_gsets.keys(): the zones of the cavities drawn, in the order of the
\* sorted cavity names
zones_gsets_keys(cavs) ==
    (IF "c1" \in cavs THEN <<zone_of("c1")>> ELSE <<>>)
        \o (IF "c2" \in cavs /\ ("c1" \notin cavs \/ zone_of("c2") # zone_of("c1"))
            THEN <<zone_of("c2")>> ELSE <<>>)

\* how zone.check_percent_heat_change can end for a list of eight gradients
HeatGateOutcomes == {"none", "RuntimeError", "ZeroDivisionError"}

ScanIdle ==
    [pc |-> "idle", n_samples |-> 0, i |-> 0, cavs |-> {}, status |-> "UNKNOWN",
     batches |-> <<>>, rows |-> 0, questions |-> 0, exc |-> "none",
     base |-> {}, modified |-> {}, restored |-> {}, todo |-> <<>>,
     zones |-> <<>>, gated |-> [z \in ScanZones |-> 0], skip |-> FALSE]

ScanFrame == UNCHANGED <<smVars, cs, th, cavVars, orc, mn, wg, auxVars>>

\* for i in range(1, n_samples + 1): the next round, or the end of the scan
next_round(s) ==
    IF s.i < s.n_samples THEN [s EXCEPT !.pc = "sample", !.i = @ + 1, !.exc = "none"]
    ELSE [s EXCEPT !.pc = "returned", !.exc = "none"]

\* an exception other than UserScanAbort reaches the handler of the round
scan_except(s, e) == [s EXCEPT !.pc = "ask_restore", !.exc = e]

\* UserScanAbort leaves the procedure
scan_abort_swallowed(s) == [next_round(s) EXCEPT !.exc = "UserScanAbort"]
scan_abort(s) == [s EXCEPT !.pc = "raised", !.exc = "UserScanAbort"]

\* Entry of the procedure up to the first round
run_random_sample_random_offset_gradient_scan(n_samples) ==
    /\ scan.pc = "idle"
    /\ mn.pc = "idle"
    /\ scan' = next_round([ScanIdle EXCEPT !.n_samples = n_samples])
    /\ ScanFrame

\* The start of a round: the cavities are drawn and zones_gsets is built.
\* scan.zones are the zones whose heat is still to be checked, scan.gated
\* counts the calls of check_percent_heat_change of the round per zone, and
\* scan.skip is the flag of the round
get_random_cavity_gradients_changes(cavs) ==
    /\ scan.pc = "sample"
    /\ scan' = [scan EXCEPT !.pc = IF zones_gsets_keys(cavs) = <<>> THEN "apply" ELSE "gate",
                            !.cavs = cavs, !.status = "UNKNOWN",
                            !.batches = <<>>, !.rows = 0, !.questions = 0,
                            !.base = scan.modified,
                            !.zones = zones_gsets_keys(cavs),
                            !.gated = [z \in ScanZones |-> 0], !.skip = FALSE]
    /\ ScanFrame

\* for zone in zones_gsets.keys(): an exception of the check is logged, sets
\* skip and breaks, and the round is skipped by continue; else the loop goes
\* on, and after the last zone collect_data_at_gradients is called
heat_gate_result_ignored(s, outcome) ==
    [s EXCEPT !.pc = IF Tail(s.zones) = <<>> THEN "apply" ELSE "gate", !.zones = Tail(@)]
heat_gate_result(s, outcome) ==
    IF outcome # "none" THEN next_round(s)
    ELSE [s EXCEPT !.pc = IF Tail(s.zones) = <<>> THEN "apply" ELSE "gate", !.zones = Tail(@)]

\* One pass of the loop over zones_gsets: zone.check_percent_heat_change
check_zone_heat(outcome) ==
    /\ scan.pc = "gate"
    /\ scan' = heat_gate_result([scan EXCEPT !.gated[Head(scan.zones)] = @ + 1,
                                             !.skip = (outcome # "none")], outcome)
    /\ ScanFrame

\* One pass of the apply loop of collect_data_at_gradients
collect_data_at_gradients_apply(o) ==
    /\ scan.pc = "apply"
    /\ o \in update_cavity_gsets_parallel_results(scan.cavs)
    /\ LET status == IF o.status # "SUCCESS" THEN update_gsets_failure_prompt(o.failed)
                     ELSE o.status
           s1 == [scan EXCEPT !.batches = Append(@, "new"),
                              !.modified = @ \cup o.written,
                              !.restored = @ \ o.written,
                              !.status = IF status \in {"AttributeError"} THEN o.status ELSE status]
       IN scan' = IF status = "AttributeError" THEN scan_except(s1, status)
                  ELSE IF status = "ABORT" THEN scan_abort(s1)
                  ELSE IF status = "FAIL" THEN [s1 EXCEPT !.pc = "rollback"]
                  ELSE IF status = "SUCCESS" THEN [s1 EXCEPT !.pc = "settle"]
                  ELSE s1
    /\ ScanFrame

\* settle_and_collect_data: StateMonitor.monitor / check_state with their default
\* user_input=True raise RuntimeError when the state is bad and the operator
\* declines; otherwise the row is written
settle_and_collect_data(state_ok) ==
    /\ scan.pc = "settle"
    /\ scan' = IF state_ok THEN [scan EXCEPT !.pc = "rollback", !.rows = @ + 1]
               ELSE scan_except(scan, "RuntimeError")
    /\ ScanFrame

\* One pass of the rollback loop of collect_data_at_gradients
collect_data_at_gradients_rollback(o) ==
    /\ scan.pc = "rollback"
    /\ o \in update_cavity_gsets_parallel_results(scan.cavs)
    /\ LET s1 == [scan EXCEPT !.batches = Append(@, "old"),
                              !.modified = @ \ ((scan.cavs \ o.failed) \ scan.base),
                              !.restored = @ \cup scan.cavs,
                              !.status = o.status]
           retry == user_alert_scan_paused
       IN scan' = IF o.status = "SUCCESS" THEN next_round(s1)
                  ELSE IF retry = "TclError" THEN scan_except(s1, retry)
                  ELSE IF retry = "no" THEN scan_abort([s1 EXCEPT !.questions = @ + 1])
                  ELSE [s1 EXCEPT !.questions = @ + 1]
    /\ ScanFrame

\* a sequence holding the elements of a set of cavity names
RECURSIVE SetToSeq(_)
SetToSeq(S) == IF S = {} THEN <<>>
               ELSE LET c == CHOOSE x \in S : TRUE IN <<c>> \o SetToSeq(S \ {c})

\* except Exception: the operator is asked "Restore cavities to initial values?"
scan_ask_restore(response) ==
    /\ scan.pc = "ask_restore"
    /\ scan' = IF startswith_y(str_lstrip(str_lower(response)))
               THEN IF scan.cavs = {} THEN [scan EXCEPT !.pc = "ask_continue"]
                    ELSE [scan EXCEPT !.pc = "restoring", !.todo = SetToSeq(scan.cavs)]
               ELSE [scan EXCEPT !.pc = "ask_continue"]
    /\ ScanFrame

\* for cav in cavs: cav.restore_pset(); cav.restore_gset(settle_time=1).  The
\* walk back of restore_gset runs only when GSET is not at gset_init, and an
\* exception of the walk leaves the handler and the procedure
scan_restore_cavity(walk_ok) ==
    /\ scan.pc = "restoring"
    /\ LET c == Head(scan.todo)
           s1 == [scan EXCEPT !.restored = @ \cup {c}, !.todo = Tail(@)]
       IN scan' = IF c \in scan.modified /\ ~walk_ok
                  THEN [s1 EXCEPT !.pc = "raised", !.exc = "ValueError"]
                  ELSE [s1 EXCEPT !.modified = @ \ {c},
                                  !.pc = IF Tail(scan.todo) = <<>> THEN "ask_continue" ELSE @]
    /\ ScanFrame

\* "Continue with next iteration of scan (n|y)?": an answer starting with n
\* raises UserScanAbort, any other goes on with the next round
scan_ask_continue(response) ==
    /\ scan.pc = "ask_continue"
    /\ scan' = IF startswith_n(str_lstrip(str_lower(response))) THEN scan_abort(scan)
               ELSE next_round(scan)
    /\ ScanFrame

----------------------------------------------------------------------------
(* main (main.py): one command per run.  The body of a scan procedure is   *)
(* summarised by how it ends and by whether it changed a GSET; SIGINT is   *)
(* turned into UserScanAbort by sigint_handler, installed first in main.   *)

Commands == {"fe_onset", "gradient_scan", "simple_gradient_scan", "random_sample_gradient_scan"}

\* how the body of a procedure can end
ProcedureEnds == {"returned", "RuntimeError", "UserScanAbort"}

\* the number of gradients run_simple_gradient_scan steps a cavity through
SimpleSteps == {1, 2}

MnIdle ==
    [pc |-> "idle", command |-> "none", exc |-> "none", psets |-> 0, steps |-> 0,
     modified |-> FALSE, gset_restore |-> FALSE, exit |-> None]

MainFrame == UNCHANGED <<smVars, cs, th, cavVars, orc, scan, wg, auxVars>>

\* Entry of main up to the construction of the linac of the command
main(command, steps) ==
    /\ mn.pc = "idle"
    /\ scan.pc = "idle"
    /\ mn' = [MnIdle EXCEPT !.pc = "run", !.command = command, !.steps = steps]
    /\ MainFrame

\* fe_onset: run_find_fe_process walks gradients and has no cleanup of its own,
\* and main calls it outside any try/finally
run_find_fe_process(end, modified) ==
    /\ mn.pc = "run"
    /\ mn.command = "fe_onset"
    /\ mn' = [mn EXCEPT !.pc = "except", !.modified = modified,
                        !.exc = IF end = "returned" THEN "none" ELSE end]
    /\ MainFrame

\* gradient_scan: the levelized walk steps cavities down and restores the PSETs
\* in its own finally
run_gradient_scan_levelized_walk(end, modified) ==
    /\ mn.pc = "run"
    /\ mn.command = "gradient_scan"
    /\ mn' = [mn EXCEPT !.pc = "finally", !.modified = modified, !.psets = @ + 1,
                        !.exc = IF end = "returned" THEN "none" ELSE end]
    /\ MainFrame

\* simple_gradient_scan: one gradient of one cavity.  An exception of the step
\* is answered by user_alert_scan_paused, whose own exception leaves the handler;
\* UserScanAbort is re-raised; both reach the finally of the procedure
run_simple_gradient_scan(end, wrote) ==
    /\ mn.pc = "run"
    /\ mn.command = "simple_gradient_scan"
    /\ LET m1 == [mn EXCEPT !.modified = @ \/ wrote \/ end = "returned", !.steps = @ - 1]
           do_continue == user_alert_scan_paused
       IN mn' = IF end = "UserScanAbort"
                THEN [m1 EXCEPT !.pc = "finally", !.exc = end, !.psets = @ + 1]
                ELSE IF end = "returned"
                THEN [m1 EXCEPT !.pc = IF m1.steps = 0 THEN "restore_gset" ELSE @]
                ELSE IF do_continue = "TclError"
                THEN [m1 EXCEPT !.pc = "finally", !.exc = do_continue, !.psets = @ + 1]
                ELSE IF do_continue = "no"
                THEN [m1 EXCEPT !.pc = "finally", !.exc = end, !.gset_restore = TRUE,
                                !.psets = @ + 2]
                ELSE [m1 EXCEPT !.pc = IF m1.steps = 0 THEN "restore_gset" ELSE @]
    /\ MainFrame

\* cavity.restore_gset(settle_time=1) after the gradients of a cavity, and the
\* finally of run_simple_gradient_scan
simple_restore_gset(walk_ok) ==
    /\ mn.pc = "restore_gset"
    /\ mn' = [mn EXCEPT !.pc = "finally", !.gset_restore = TRUE, !.psets = @ + 1,
                        !.modified = @ /\ ~walk_ok,
                        !.exc = IF mn.modified /\ ~walk_ok THEN "ValueError" ELSE "none"]
    /\ MainFrame

\* random_sample_gradient_scan: main passes max_delay=, a keyword the procedure
\* does not take, so the call raises TypeError inside the try
main_random_sample_call ==
    /\ mn.pc = "run"
    /\ mn.command = "random_sample_gradient_scan"
    /\ mn' = [mn EXCEPT !.pc = "finally", !.exc = "TypeError"]
    /\ MainFrame

\* finally: linac.restore_psets() of the three scan commands
main_finally_skipped ==
    /\ mn.pc = "finally"
    /\ mn' = [mn EXCEPT !.pc = "except"]
    /\ MainFrame
main_finally ==
    /\ mn.pc = "finally"
    /\ mn' = [mn EXCEPT !.pc = "except", !.psets = @ + 1]
    /\ MainFrame

\* except UserScanAbort / except Exception: return 1; otherwise return 0
main_return ==
    /\ mn.pc = "except"
    /\ mn' = [mn EXCEPT !.pc = "exited", !.exit = IF mn.exc = "none" THEN 0 ELSE 1]
    /\ MainFrame

----------------------------------------------------------------------------
(* Cavity.walk_gradient and Cavity.restore_gset (cavity.py).  Each         *)
(* set_gradient call of a walk runs the set_gradient model above.          *)

\* Number of walk_gradient / restore_gset calls made one after the other
MaxWalks == 2

\* step_size: Optional[float] = 1.0
DefaultStepSize == 100000

\* no walk_gradient call in progress; gset_init is read at construction
WgIdle ==
    [pc |-> "idle", n |-> 0, kind |-> "none", gset |-> 0, step_size |-> 0, force |-> FALSE,
     step_dir |-> 0, actual_gset |-> 0, exc |-> "none", log |-> <<>>, gset_init |-> None,
     prev |-> "none"]

WalkFrame == UNCHANGED <<smVars, cs, th, cfg, autoheat, orc, scan, mn, auxVars>>

\* while abs(gset - actual_gset) > step_size
walk_more_steps(w) == Abs(w.gset - w.actual_gset) > w.step_size

\* the gradient the next set_gradient call of the walk asks for
walk_request_direct(w) == w.gset
walk_request_overshoot(w) ==
    IF walk_more_steps(w) THEN w.actual_gset + (w.step_dir * w.step_size)
    ELSE w.actual_gset + (3 * w.step_dir * w.step_size)
walk_request(w) ==
    IF walk_more_steps(w) THEN w.actual_gset + (w.step_dir * w.step_size)
    ELSE w.gset

\* walk_gradient up to its loop: step_size None stands for gmes_step_size, the
\* direction and the setpoint come from _get_step_direction (which waits until
\* the read succeeds), and a target above gset_max is refused
walk_start(c, g, step_size, force) ==
    LET w == [wg EXCEPT !.n = @ + 1, !.kind = "walk", !.gset = g,
                        !.step_size = IF step_size = None THEN cfg[c].gmes_step_size
                                      ELSE step_size,
                        !.force = force,
                        !.step_dir = IF g >= gset[c] THEN 1 ELSE -1,
                        !.actual_gset = gset[c],
                        !.log = <<>>,
                        !.prev = IF wg.pc = "done" THEN "done" ELSE "none"]
    IN IF g > cfg[c].gset_max THEN [w EXCEPT !.pc = "raised", !.exc = "ValueError"]
       ELSE [w EXCEPT !.pc = "loop", !.exc = "none"]

WalkReady(c) ==
    /\ wg.pc \in {"idle", "done", "raised"}
    /\ wg.n < MaxWalks
    /\ cav[c].pc = "idle"

walk_gradient(c, g, step_size, force) ==
    /\ WalkReady(c)
    /\ wg' = walk_start(c, g, step_size, force)
    /\ UNCHANGED cavVars
    /\ WalkFrame

\* restore_gset(**kwargs): if self.gset.value != self.gset_init: walk_gradient(gset_init, **kwargs)
restore_gset_always(c, force) ==
    /\ WalkReady(c)
    /\ wg' = [walk_start(c, wg.gset_init, DefaultStepSize, force) EXCEPT !.kind = "restore"]
    /\ UNCHANGED cavVars
    /\ WalkFrame
restore_gset(c, force) ==
    /\ WalkReady(c)
    /\ wg' = IF gset[c] # wg.gset_init
             THEN [walk_start(c, wg.gset_init, DefaultStepSize, force) EXCEPT !.kind = "restore"]
             ELSE [wg EXCEPT !.pc = "done", !.n = @ + 1, !.kind = "restore", !.exc = "none",
                             !.log = <<>>, !.force = force,
                             !.prev = IF wg.pc = "done" THEN "done" ELSE "none"]
    /\ UNCHANGED cavVars
    /\ WalkFrame

\* self.set_gradient(gset=next_gset, **kwargs) in the loop, or
\* self.set_gradient(gset=gset, **kwargs) after it
walk_set_gradient(c, rounds_up, rounds_down) ==
    /\ wg.pc = "loop"
    /\ set_gradient(c, walk_request(wg), 0, FALSE, wg.force, TRUE, gset[c], rounds_up, rounds_down)

\* the set_gradient call returns or raises; in the loop the setpoint is read
\* again with self.gset.get(use_monitor=False) for the next loop test
walk_return(c, value) ==
    /\ wg.pc = "loop"
    /\ cav[c].pc \in {"done", "raised"}
    /\ LET w == [wg EXCEPT !.log = @ \o writes[c]]
       IN wg' = IF cav[c].pc = "raised" THEN [w EXCEPT !.pc = "raised", !.exc = cav[c].exc]
                ELSE IF ~walk_more_steps(wg) THEN [w EXCEPT !.pc = "done"]
                ELSE IF value = None THEN [w EXCEPT !.pc = "raised", !.exc = "TypeError"]
                ELSE [w EXCEPT !.actual_gset = value]
    /\ cav' = [cav EXCEPT ![c] = CavIdle]
    /\ UNCHANGED <<cfg, autoheat, gset, writes>>
    /\ WalkFrame

----------------------------------------------------------------------------
(* StateMonitor.monitor(duration, user_input) called by the main thread,   *)
(* with its clock.  Time is counted in sleeps of the loop (0.05 s): a      *)
(* duration of 2 is 0.1 s.  The clock also advances while check_state      *)
(* waits in input() for the operator.                                      *)

\* Number of monitor calls made one after the other
MaxMonitors == 2

\* durations a caller passes: None, negative, zero, one and two sleeps long
Durations == {None, -1, 0, 1, 2}

\* how far the clock can move during one time.sleep(0.05), and during one input()
SleepTicks == {1, 2}
PromptTicks == {0, 1, 2}

\* no monitor call in progress
MonIdle == [pc |-> "idle", n |-> 0, duration |-> None, user_input |-> FALSE,
            elapsed |-> 0, checks |-> 0, sleeps |-> 0, woke_unsafe |-> FALSE]

MonFrame == UNCHANGED <<th, cavVars, orc, scan, mn, wg, hc, lk, tc, gm, ev, rs>>

\* start = datetime.now(), and the test that selects the sleep loop
monitor(duration, user_input) ==
    /\ mon.pc \in {"idle", "returned", "raised"}
    /\ mon.n < MaxMonitors
    /\ cs.pc # "prompt"
    /\ mon' = [pc |-> monitor_entry(duration), n |-> mon.n + 1, duration |-> duration,
               user_input |-> user_input, elapsed |-> 0, checks |-> 0, sleeps |-> 0,
               woke_unsafe |-> FALSE]
    /\ UNCHANGED <<smVars, cs>>
    /\ MonFrame

\* where monitor goes once a check_state call of it has returned
after_check(m) == IF m.pc = "mon_first" THEN "loop" ELSE "returned"

\* cls.check_state(user_input=user_input), before the loop or after it
monitor_check_state ==
    /\ mon.pc \in {"mon_first", "mon_last"}
    /\ check_state(mon.user_input)
    /\ mon' = [mon EXCEPT !.checks = @ + 1,
                          !.pc = IF cs'.pc = "returned" THEN after_check(mon)
                                 ELSE IF cs'.pc = "raised" THEN "raised"
                                 ELSE IF mon.pc = "mon_first" THEN "first_prompt"
                                 ELSE "last_prompt"]
    /\ MonFrame

\* the operator answers the prompt of that check_state call after some time
monitor_check_state_answer(response, waited) ==
    /\ mon.pc \in {"first_prompt", "last_prompt"}
    /\ check_state_answer(response)
    /\ mon' = [mon EXCEPT !.elapsed = @ + waited,
                          !.pc = IF cs'.pc = "raised" THEN "raised"
                                 ELSE IF mon.pc = "first_prompt" THEN "loop"
                                 ELSE "returned"]
    /\ MonFrame

\* while (datetime.now() - start).total_seconds() < duration: time.sleep(0.05)
\* Coming back to the loop test after a sleep is a wake-up; woke_unsafe notes
\* that daq_good() would have been False at a wake-up before the window ended.
monitor_sleep(slept) ==
    /\ mon.pc = "loop"
    /\ IF mon.elapsed < mon.duration
       THEN mon' = [mon EXCEPT !.elapsed = @ + slept, !.sleeps = @ + 1,
                               !.woke_unsafe = @ \/ (mon.sleeps > 0 /\ ~daq_good)]
       ELSE mon' = [mon EXCEPT !.pc = "mon_last"]
    /\ UNCHANGED <<smVars, cs>>
    /\ MonFrame

----------------------------------------------------------------------------
(* Zone.check_percent_heat_change (linac.py) and Cavity.calculate_heat     *)
(* (cavity.py).  Gradients are whole MV/m here.  The cavities of a zone    *)
(* share their type and Q0, so heat is counted in units of                 *)
(* 1e11 / (shunt_impedance * Q0) W, which cancel in the relative change.   *)

\* the cavities of a zone: if len(gradients) != 8
ZoneSize == 8

\* Cavity.length, in tenths of a metre
CavityLength == 5

\* Cavity.calculate_heat: g is the gradient given, or self.gset.value for None
calculate_heat(current, gradient) ==
    LET g == IF gradient = None THEN current ELSE gradient
    IN g * g * CavityLength

RECURSIVE SumHeat(_, _, _)
\* the loop of check_percent_heat_change over the first n entries: old_heat
\* (proposed = FALSE) or new_heat (proposed = TRUE)
SumHeat(current, gradients, n) ==
    IF n = 0 THEN [old |-> 0, new |-> 0]
    ELSE LET rest == SumHeat(current, gradients, n - 1)
         IN [old |-> rest.old + calculate_heat(current[n], None),
             new |-> rest.new + calculate_heat(current[n], gradients[n])]

\* (new_heat - old_heat) / old_heat * 100 in units of 0.01 %, cut off towards 0
rel_change_of(new_heat, old_heat) ==
    LET q == (Abs(new_heat - old_heat) * 10000) \div old_heat
    IN IF new_heat < old_heat THEN -q ELSE q

\* abs(rel_change) > percentage on binary floats.  The quotient is exact when
\* the heat does not change and when the new heat is 0 (-100.0); at any other
\* change that equals the percentage exactly, the outcome follows the
\* rounding of the sums and of the division (8 cavities at 10 MV/m, one of
\* them proposed to 0: -12.500000000000002)
exceeds_percentage(new_heat, old_heat, percentage, rounds_up) ==
    LET lhs == Abs(new_heat - old_heat) * 100
        rhs == percentage * old_heat
    IN IF new_heat = old_heat \/ new_heat = 0 THEN lhs > rhs
       ELSE lhs > rhs \/ (lhs = rhs /\ rounds_up)

HcIdle == [pc |-> "idle", current |-> <<>>, gradients |-> <<>>, percentage |-> 0,
           exc |-> "none", rel_change |-> 0, new_heat |-> 0, old_heat |-> 0]

HcFrame == UNCHANGED <<smVars, cs, th, cavVars, orc, scan, mn, wg, mon, lk, tc, gm, ev, rs>>

\* Zone.check_percent_heat_change(gradients, percentage) on a zone whose
\* cavities hold the gradients hc.current
check_percent_heat_change(rounds_up) ==
    /\ hc.pc = "called"
    /\ IF Len(hc.gradients) # ZoneSize
       THEN hc' = [hc EXCEPT !.pc = "raised", !.exc = "ValueError"]
       ELSE LET heat == SumHeat(hc.current, hc.gradients, ZoneSize)
            IN IF heat.old = 0
               THEN hc' = [hc EXCEPT !.pc = "raised", !.exc = "ZeroDivisionError"]
               ELSE IF exceeds_percentage(heat.new, heat.old, hc.percentage, rounds_up)
               THEN hc' = [hc EXCEPT !.pc = "raised", !.exc = "RuntimeError"]
               ELSE hc' = [hc EXCEPT !.pc = "returned",
                                     !.rel_change = rel_change_of(heat.new, heat.old),
                                     !.new_heat = heat.new, !.old_heat = heat.old]
    /\ HcFrame

----------------------------------------------------------------------------
(* Locks.  Every method is the sequence of its lock and map steps, taken   *)
(* one at a time by the thread that called it: EPICS callbacks run in      *)
(* callback threads, set_gradient in a worker thread of a batch, and the   *)
(* procedures in the main thread.  state_lock holds the name of the thread *)
(* that has StateMonitor.__state_lock; lk.owner the holders of the others. *)
(* The callbacks delivered are connection_cb and threshold_cb of one       *)
(* signal: rf_on_cb takes and releases its own lock as connection_cb does, *)
(* and hv_read_back_cb calls a record method as threshold_cb does.         *)

CallbackThreads == {"ca1", "ca2"}
LockThreads == CallbackThreads \cup {"worker", "main"}

StateLock == "__state_lock"
OtherLocks == {"has_connected_lock", "zone.epics_lock", "linac.epics_lock", "_CONFIG_LOCK"}

\* the signal the callbacks of the lock scenario are delivered for
LockedPV == "pvA"

LkIdle == [prog |-> [t \in LockThreads |-> <<>>],
           owner |-> [l \in OtherLocks |-> "free"],
           has_connected |-> {}]

LkFrame == UNCHANGED <<cs, th, cavVars, orc, scan, mn, wg, mon, hc, tc, gm, ev, rs>>

holder(l) == IF l = StateLock THEN state_lock ELSE lk.owner[l]

\* the locks a thread has
held(t) == {l \in OtherLocks \cup {StateLock} : holder(l) = t}

\* with lock: body
with_lock(l, body) == <<<<"acquire", l>>>> \o body \o <<<<"release", l>>>>

\* StateMonitor record methods and queries
clear_state_steps == with_lock(StateLock, <<<<"clear">>>>)
pv_disconnected_steps(n) == with_lock(StateLock, <<<<"put", "pv_connected", n, "F">>>>)
pv_reconnected_steps(n) == with_lock(StateLock, <<<<"put", "pv_connected", n, "T">>>>)
threshold_exceeded_steps(n) == with_lock(StateLock, <<<<"put", "threshold_exceeded", n, "T">>>>)
\* threshold_recovered: __get_threshold_exceeded_count() and the del, both
\* inside the one with block
threshold_recovered_steps_public(n) ==
    with_lock(StateLock, with_lock(StateLock, <<<<"read">>>>) \o <<<<"del", "threshold_exceeded", n>>>>)
threshold_recovered_steps(n) ==
    with_lock(StateLock, <<<<"read">>, <<"del", "threshold_exceeded", n>>>>)
\* daq_good, output_state and the get_*_count methods
daq_good_steps == with_lock(StateLock, <<<<"read">>>>)

\* check_state: the body up to __daq_good(); the rest follows its outcome
check_state_steps(user_input) ==
    <<<<"acquire", StateLock>>, <<"check_state", IF user_input THEN "T" ELSE "F">>>>

\* monitor with a duration above 0
monitor_steps(user_input) ==
    check_state_steps(user_input) \o <<<<"sleep">>>> \o check_state_steps(user_input)

\* connection_cb: the first connection of a signal is only noted
connection_cb_steps(n, conn) ==
    IF conn THEN <<<<"acquire", "has_connected_lock">>, <<"first", "has_connected", n>>>>
    ELSE pv_disconnected_steps(n)
threshold_cb_steps(n, in_spec) ==
    IF in_spec THEN threshold_recovered_steps(n) ELSE threshold_exceeded_steps(n)

\* Zone.check_jt_valve, Linac.check_linac_pressure, Linac.check_heater_margin
check_jt_valve_steps == with_lock("zone.epics_lock", <<<<"pv_value">>>>)
check_linac_pressure_steps == with_lock("linac.epics_lock", <<<<"pv_value">>>>)
check_heater_margin_steps == with_lock("linac.epics_lock", <<<<"pv_value">>>>)

\* app_config.get_parameter, set_parameter
get_parameter_steps == with_lock("_CONFIG_LOCK", <<<<"config">>>>)

\* what the threads call: the callbacks; the cryo checks of _do_ramp_checks
\* and the check_state of monitor(user_input=False) within set_gradient; the
\* calls of the procedures
Calls(t) ==
    IF t \in CallbackThreads
    THEN {connection_cb_steps(LockedPV, b) : b \in BOOLEAN}
            \cup {threshold_cb_steps(LockedPV, b) : b \in BOOLEAN}
    ELSE IF t = "worker"
    THEN {check_jt_valve_steps, check_linac_pressure_steps, check_heater_margin_steps,
          check_state_steps(FALSE)}
    ELSE {monitor_steps(TRUE), daq_good_steps, clear_state_steps, get_parameter_steps}

\* the step a thread is at, or <<"none">>
at(t) == IF lk.prog[t] = <<>> THEN <<"none">> ELSE Head(lk.prog[t])

Advance(t) == lk' = [lk EXCEPT !.prog[t] = Tail(@)]

\* a thread calls a method
lock_call(t, steps) ==
    /\ lk.prog[t] = <<>>
    /\ steps \in Calls(t)
    /\ lk' = [lk EXCEPT !.prog[t] = steps]
    /\ UNCHANGED smVars
    /\ LkFrame

\* threading.Lock.acquire: blocks until the lock is free, whoever has it
lock_acquire(t) ==
    /\ at(t)[1] = "acquire"
    /\ holder(at(t)[2]) = "free"
    /\ IF at(t)[2] = StateLock
       THEN state_lock' = t /\ Advance(t)
       ELSE /\ lk' = [lk EXCEPT !.prog[t] = Tail(@), !.owner[at(t)[2]] = t]
            /\ UNCHANGED state_lock
    /\ UNCHANGED smMaps
    /\ LkFrame

\* the end of a with block
lock_release(t) ==
    /\ at(t)[1] = "release"
    /\ IF at(t)[2] = StateLock
       THEN state_lock' = "free" /\ Advance(t)
       ELSE /\ lk' = [lk EXCEPT !.prog[t] = Tail(@), !.owner[at(t)[2]] = "free"]
            /\ UNCHANGED state_lock
    /\ UNCHANGED smMaps
    /\ LkFrame

\* the statements of the record methods on the maps
map_step(t) ==
    /\ at(t)[1] \in {"put", "del", "clear", "read"}
    /\ LET s == at(t)
       IN IF s[1] = "clear"
          THEN /\ pv_connected' = EmptyDict /\ rf_on' = EmptyDict
               /\ hv_bad' = EmptyDict /\ threshold_exceeded' = EmptyDict
          ELSE IF s[1] = "put" /\ s[2] = "pv_connected"
          THEN /\ pv_connected' = DictPut(pv_connected, s[3], s[4] = "T")
               /\ UNCHANGED <<rf_on, hv_bad, threshold_exceeded>>
          ELSE IF s[1] = "put"
          THEN /\ threshold_exceeded' = DictPut(threshold_exceeded, s[3], <<0, 1, ">">>)
               /\ UNCHANGED <<pv_connected, rf_on, hv_bad>>
          ELSE IF s[1] = "del"
          THEN /\ threshold_exceeded' =
                     IF get_threshold_exceeded_count > 0 /\ s[3] \in DOMAIN threshold_exceeded
                     THEN DictDel(threshold_exceeded, s[3]) ELSE threshold_exceeded
               /\ UNCHANGED <<pv_connected, rf_on, hv_bad>>
          ELSE UNCHANGED smMaps
    /\ Advance(t)
    /\ UNCHANGED state_lock
    /\ LkFrame

\* check_state from __daq_good() on: it returns, or raises at once, or asks
\* the operator, each inside the with block
check_state_step(t) ==
    /\ at(t)[1] = "check_state"
    /\ lk' = [lk EXCEPT !.prog[t] =
                IF daq_good THEN <<<<"release", StateLock>>>> \o Tail(@)
                ELSE IF at(t)[2] = "T" THEN <<<<"input">>>> \o Tail(@)
                ELSE <<<<"release", StateLock>>, <<"raise">>>>]
    /\ UNCHANGED smVars
    /\ LkFrame

\* the operator's answer to "Continue (n|Y): "
input_step(t, response) ==
    /\ at(t)[1] = "input"
    /\ lk' = [lk EXCEPT !.prog[t] =
                IF startswith_y(str_lstrip(str_lower(response)))
                THEN <<<<"release", StateLock>>>> \o Tail(@)
                ELSE <<<<"release", StateLock>>, <<"raise">>>>]
    /\ UNCHANGED smVars
    /\ LkFrame

\* connection_cb: the test on has_connected inside its lock, and the record
\* method called after the lock is released
first_step(t) ==
    /\ at(t)[1] = "first"
    /\ LET n == at(t)[3] IN
       lk' = [lk EXCEPT !.has_connected = @ \cup {n},
                        !.prog[t] = <<<<"release", "has_connected_lock">>>> \o
                            (IF n \in lk.has_connected THEN pv_reconnected_steps(n) ELSE <<>>)]
    /\ UNCHANGED smVars
    /\ LkFrame

\* a step that touches neither a lock nor a map: a sleep, the read of a PV
\* or of the configuration; an exception ends the call
other_step(t) ==
    /\ at(t)[1] \in {"sleep", "pv_value", "config", "raise"}
    /\ lk' = [lk EXCEPT !.prog[t] = IF at(t)[1] = "raise" THEN <<>> ELSE Tail(@)]
    /\ UNCHANGED smVars
    /\ LkFrame

----------------------------------------------------------------------------
(* get_threshold_cb and the callback it returns (state_monitor.py).        *)

\* tc[n]: made is "none" before get_threshold_cb is called for the signal,
\* then "cb" or the exception raised; last is the value last delivered
TcNone == [made |-> "none", low |-> None, high |-> None, last |-> None]
TcIdle == [n \in PVNames |-> TcNone]

TcFrame == UNCHANGED <<cs, th, cavVars, orc, scan, mn, wg, mon, hc, lk, gm, ev, rs>>

\* the checks of get_threshold_cb on its arguments: the exception, or "cb"
get_threshold_cb(low, high) ==
    IF low = None /\ high = None THEN "ValueError"
    ELSE IF low # None /\ high # None /\ low >= high THEN "ValueError"
    ELSE "cb"

\* pv.add_callback(get_threshold_cb(low=..., high=...)) for a signal
add_threshold_cb(n, low, high) ==
    /\ tc[n].made = "none"
    /\ tc' = [tc EXCEPT ![n] = [made |-> get_threshold_cb(low, high), low |-> low,
                                high |-> high, last |-> None]]
    /\ UNCHANGED smVars
    /\ TcFrame

\* threshold_cb(pvname, value): the record method it calls
threshold_cb(n, value) ==
    /\ tc[n].made = "cb"
    /\ LET is_low == tc[n].low # None /\ value < tc[n].low
           is_high == tc[n].high # None /\ value > tc[n].high
       IN IF ~is_low /\ ~is_high THEN threshold_recovered(n)
          ELSE IF is_low THEN threshold_exceeded_op(n, <<tc[n].low, value, "<">>)
          ELSE threshold_exceeded_op(n, <<tc[n].high, value, ">">>)
    /\ tc' = [tc EXCEPT ![n].last = value]
    /\ TcFrame

----------------------------------------------------------------------------
(* Cavity.__init__ and Cavity.update_gset_max (fe_daq/cavity.py): the      *)
(* ceiling of a cavity, in whole MV/m.                                     *)

\* the end of Cavity.__init__: gset_max starts at gset_min and the ceiling
\* asked for is kept for update_gset_max
cavity_init(gset_min, gset_max, drvh, odvh) ==
    [pc |-> "constructed", gset_min |-> gset_min, gset_max |-> gset_min,
     gset_max_requested |-> gset_max, drvh |-> drvh, odvh |-> odvh]

GmIdle == cavity_init(0, None, 0, 0)

GmFrame == UNCHANGED <<smVars, cs, th, cavVars, orc, scan, mn, wg, mon, hc, lk, tc, ev, rs>>

\* the cavity after update_gset_max(gset_max)
gset_max_unchecked(g, gset_max) ==
    LET requested == IF gset_max # None THEN gset_max ELSE g.gset_max_requested
    IN [g EXCEPT !.pc = "updated", !.gset_max_requested = requested,
                 !.gset_max = IF requested = None THEN g.odvh ELSE requested]
gset_max_updated(g, gset_max) ==
    LET requested == IF gset_max # None THEN gset_max ELSE g.gset_max_requested
    IN [g EXCEPT !.pc = "updated", !.gset_max_requested = requested,
                 !.gset_max = IF requested = None THEN g.odvh
                              ELSE IF requested > g.drvh THEN g.drvh
                              ELSE requested]

update_gset_max(gset_max) ==
    /\ gm' = gset_max_updated(gm, gset_max)
    /\ GmFrame

----------------------------------------------------------------------------
(* connection_cb and rf_on_cb (state_monitor.py), each run as a whole: the *)
(* driver delivers the events of one signal one after the other.           *)

\* first_rf_on is the module's list; last_conn and last_rf remember the last
\* event delivered for each signal ("none" before the first)
EvIdle == [first_rf_on |-> {},
           last_conn |-> [n \in PVNames |-> "none"],
           last_rf |-> [n \in PVNames |-> "none"]]

EvFrame == UNCHANGED <<cs, th, cavVars, orc, scan, mn, wg, mon, hc, tc, gm, rs>>

connection_cb(pvname, conn) ==
    /\ IF conn
       THEN /\ lk' = [lk EXCEPT !.has_connected = @ \cup {pvname}]
            /\ IF pvname \in lk.has_connected
               THEN pv_reconnected(pvname)
               ELSE UNCHANGED smVars
       ELSE /\ pv_disconnected(pvname)
            /\ UNCHANGED lk
    /\ ev' = [ev EXCEPT !.last_conn[pvname] = IF conn THEN "T" ELSE "F"]
    /\ EvFrame

rf_on_cb(pvname, value) ==
    /\ IF value = 1
       THEN /\ IF pvname \in ev.first_rf_on
               THEN rf_turned_on(pvname)
               ELSE UNCHANGED smVars
            /\ ev' = [ev EXCEPT !.first_rf_on = @ \cup {pvname}, !.last_rf[pvname] = "T"]
       ELSE /\ rf_turned_off(pvname)
            /\ ev' = [ev EXCEPT !.last_rf[pvname] = "F"]
    /\ UNCHANGED lk
    /\ EvFrame

----------------------------------------------------------------------------
(* get_random_cavity_gradients_changes (procedures.py) as a function of    *)
(* the cavities random.sample drew and of the offsets drawn for them.  A   *)
(* cavity's current gradient is cav.gset.value, gset[c] here.              *)

\* offset_list: -1.5, -0.5, 0.5 and 1.5 MV/m of the default list
OffsetList == {-150000, -50000, 50000, 150000}

\* cav.cavity_number: the position of the cavity in its zone
cavity_number(c) == IF c = "c1" THEN 1 ELSE IF c = "c2" THEN ZoneSize ELSE 3

\* sorted(..., key=lambda x: x.name)
CavityOrder == <<"c1", "c2", "c3">>
InSample(S, c) == c \in S
sorted_by_name(S) ==
    LET Keep(q, n) == IF InSample(S, q[n]) THEN <<q[n]>> ELSE <<>>
    IN Keep(CavityOrder, 1) \o Keep(CavityOrder, 2) \o Keep(CavityOrder, 3)

\* the offsets that keep the cavity strictly between gset_min and gset_max
cav_offsets_inclusive(c) ==
    {o \in OffsetList : o + gset[c] >= cfg[c].gset_min /\ o + gset[c] <= cfg[c].gset_max}
cav_offsets(c) ==
    {o \in OffsetList : o + gset[c] > cfg[c].gset_min /\ o + gset[c] < cfg[c].gset_max}

RsIdle == [pc |-> "idle", cavs |-> <<>>, new_gsets |-> EmptyDict, old_gsets |-> EmptyDict,
           zones_gsets |-> EmptyDict, exc |-> "none"]

RsFrame == UNCHANGED <<smVars, cs, th, cavVars, orc, scan, mn, wg, mon, hc, lk, tc, gm, ev>>

\* for cav in cavs: the three dictionaries after the cavities left in the
\* list; picks[c] is the offset random.sample draws when the cavity has any
RECURSIVE changes_loop(_, _, _)
changes_loop(cavs, picks, acc) ==
    IF cavs = <<>> THEN acc
    ELSE LET c == Head(cavs)
             offset == IF Cardinality(cav_offsets(c)) > 0 THEN picks[c] ELSE 0
             new == gset[c] + offset
             zones == IF zone_of(c) \notin DOMAIN acc.zones_gsets
                      THEN DictPut(acc.zones_gsets, zone_of(c), [i \in 1..ZoneSize |-> None])
                      ELSE acc.zones_gsets
         IN changes_loop(Tail(cavs), picks,
                [acc EXCEPT !.new_gsets = DictPut(@, c, new),
                            !.old_gsets = DictPut(@, c, gset[c]),
                            !.zones_gsets = [zones EXCEPT ![zone_of(c)][cavity_number(c)] = new]])

\* One call: sample is what random.sample(population, n_cavities) drew.  A
\* cavity whose gset.value is None makes offset_list + cav.gset.value raise.
random_cavity_gradients_changes(sample, picks) ==
    /\ rs.pc = "idle"
    /\ \A c \in sample : gset[c] # None /\ Cardinality(cav_offsets(c)) > 0 => picks[c] \in cav_offsets(c)
    /\ rs' = IF \E c \in sample : gset[c] = None
             THEN [RsIdle EXCEPT !.pc = "raised", !.cavs = sorted_by_name(sample),
                                 !.exc = "TypeError"]
             ELSE [changes_loop(sorted_by_name(sample), picks, RsIdle)
                      EXCEPT !.pc = "returned", !.cavs = sorted_by_name(sample)]
    /\ RsFrame

----------------------------------------------------------------------------
(* Specification of the StateMonitor alone: any record operation in any    *)
(* order, with check_state calls of the main thread in between.            *)

InitSM ==
    /\ pv_connected = EmptyDict
    /\ rf_on = EmptyDict
    /\ hv_bad = EmptyDict
    /\ threshold_exceeded = EmptyDict
    /\ state_lock = "free"

InitMain ==
    /\ cs = CsIdle
    /\ th = [t \in Threads |-> ThIdle]
    /\ orc = OrcIdle
    /\ scan = ScanIdle
    /\ mn = MnIdle
    /\ wg = WgIdle
    /\ mon = MonIdle
    /\ hc = HcIdle
    /\ lk = LkIdle
    /\ tc = TcIdle
    /\ gm = GmIdle
    /\ ev = EvIdle
    /\ rs = RsIdle

\* the setpoint the cavities of the model hold before any call: 7 MV/m
StartGsets == {700000}

InitCavities ==
    /\ cfg = [c \in Cavities |-> BaseConfig]
    /\ autoheat = 1
    /\ gset \in [Cavities -> StartGsets]
    /\ writes = [c \in Cavities |-> <<>>]
    /\ cav = [c \in Cavities |-> CavIdle]

Init == InitSM /\ InitMain /\ InitCavities

NoCav == UNCHANGED <<cs, th, cavVars, runVars, orc>>

Next ==
    \/ clear_state /\ NoCav
    \/ \E n \in PVNames : pv_disconnected(n) /\ NoCav
    \/ \E n \in PVNames : pv_reconnected(n) /\ NoCav
    \/ \E n \in PVNames : rf_turned_off(n) /\ NoCav
    \/ \E n \in PVNames : rf_turned_on(n) /\ NoCav
    \/ \E n \in PVNames : hv_has_problem(n) /\ NoCav
    \/ \E n \in PVNames : hv_good(n) /\ NoCav
    \/ \E n \in PVNames, r \in ThresholdRecords : threshold_exceeded_op(n, r) /\ NoCav
    \/ \E n \in PVNames : threshold_recovered(n) /\ NoCav
    \/ \E ui \in BOOLEAN : check_state(ui) /\ UNCHANGED <<th, cavVars, runVars, orc>>
    \/ \E r \in Responses : check_state_answer(r) /\ UNCHANGED <<th, cavVars, runVars, orc>>

Spec == Init /\ [][Next]_vars

(* Specification of the concurrency scenario *)

NextThreads ==
    \/ \E t \in Threads, n \in PVNames : thread_disconnect(t, n)
    \/ \E t \in Threads : thread_reconnect(t)
    \/ \E t \in Threads, n \in PVNames : thread_rf_off(t, n)
    \/ \E t \in Threads : thread_rf_on(t)
    \/ final_check_state

SpecThreads == Init /\ [][NextThreads]_vars

(* Specification of single set_gradient calls on one cavity, for every     *)
(* family, flag and kind of target, while the interlock record changes.    *)

UnderTest == "c1"

\* a cavity as constructed, with the setpoint it holds: the three families, a
\* flagged tuner, and the two ways of being bypassed (by flag, by ODVH = 0)
CavityConfigs ==
    { [cfg |-> BaseConfig, start |-> 700000],
      [cfg |-> [BaseConfig EXCEPT !.fcc_firmware_version = 2021], start |-> 700000],
      [cfg |-> [BaseConfig EXCEPT !.controls = "1.0", !.gset_min = 300000], start |-> 700000],
      [cfg |-> [BaseConfig EXCEPT !.controls = "3.0"], start |-> 700000],
      [cfg |-> [BaseConfig EXCEPT !.tuner_bad = TRUE], start |-> 700000],
      [cfg |-> [BaseConfig EXCEPT !.bypassed_eff = TRUE], start |-> 700000],
      [cfg |-> [BaseConfig EXCEPT !.bypassed_eff = TRUE, !.gset_max = 0], start |-> 0] }

\* requested gradients: below zero, zero, just above zero, just below gset_min,
\* 1.000 / 1.001 / 1.002 away from 7 MV/m, half a step away, and around gset_max
Targets == {-100000, 0, 5, 499990, 600000, 725000, 800000, 800100, 800200,
            1000005, 1000010, 1100000}

SettleTimes == {6}

InitCavity ==
    /\ InitSM
    /\ InitMain
    /\ \E k \in CavityConfigs :
          /\ cfg = [c \in Cavities |-> IF c = UnderTest THEN k.cfg ELSE BaseConfig]
          /\ gset = [c \in Cavities |-> IF c = UnderTest THEN k.start ELSE 700000]
    /\ autoheat \in {0, 1}
    /\ writes = [c \in Cavities |-> <<>>]
    /\ cav = [c \in Cavities |-> CavIdle]

NextCavity ==
    \/ /\ cav[UnderTest].pc = "idle"
       /\ \E g \in Targets, st \in SettleTimes, w \in BOOLEAN, f \in BOOLEAN, i \in BOOLEAN,
             cur \in GsetReads(UnderTest), ru \in BOOLEAN, rd \in BOOLEAN :
                set_gradient(UnderTest, g, st, w, f, i, cur, ru, rd)
    \/ \E v \in GsetReads(UnderTest) : get_step_direction(UnderTest, v)
    \/ monitor_first(UnderTest)
    \/ monitor_last(UnderTest)
    \/ \E d \in DetuneVals : tune_check(UnderTest, d)
    \/ \E d \in DetuneVals, t \in BOOLEAN : tune_poll(UnderTest, d, t)
    \/ \E r \in Responses : tune_prompt_answer(UnderTest, r)
    \/ \E v \in JtVals : jt_check(UnderTest, v)
    \/ \E v \in JtVals, t \in BOOLEAN : jt_poll(UnderTest, v, t)
    \/ \E v \in PressureVals : lp_check(UnderTest, v)
    \/ \E v \in PressureVals, t \in BOOLEAN : lp_poll(UnderTest, v, t)
    \/ \E v \in HeaterVals : hm_check(UnderTest, v)
    \/ \E v \in HeaterVals, t \in BOOLEAN : hm_poll(UnderTest, v, t)
    \/ put_gset(UnderTest)
    \/ \E on \in BOOLEAN, d \in GmesDeltas, s \in Stat1Vals, t \in BOOLEAN :
          ramp_watch(UnderTest, on, d, s, t)
    \/ \E on \in BOOLEAN, d \in GmesDeltas, s \in Stat1Vals, k \in RampSleeps :
          ramp_poll(UnderTest, on, d, s, k)
    \/ \E r \in Responses : ramp_prompt_answer(UnderTest, r)
    \/ \E v \in GsetReads(UnderTest) : reread_gset(UnderTest, v)
    \/ rf_turned_off("pvA") /\ NoCav
    \/ rf_turned_on("pvA") /\ NoCav

SpecCavity == InitCavity /\ [][NextCavity]_vars

(* Specification of set_gradient calls in which the clock keeps running:   *)
(* a cryo wait whose signal stays out of range sees its deadline pass.     *)

\* readings on which the recovery waits go on waiting
JtOpen == {v \in JtVals :
              check_jt_valve(CryoConfig.jt_max - CryoConfig.jt_recovery_margin, v)}
PressureOut == {v \in PressureVals :
                   check_linac_pressure(CryoConfig.linac_pressure_min + CryoConfig.lp_recovery_margin,
                                        CryoConfig.linac_pressure_max - CryoConfig.lp_recovery_margin, v)}
HeaterLow == {v \in HeaterVals :
                 check_heater_margin(CryoConfig.heater_margin_min + CryoConfig.heater_recovery_margin, v)}

\* (datetime.now() - start).total_seconds() > timeout becomes true
DeadlinesPass ==
    /\ WF_vars(\E v \in JtOpen : jt_poll(UnderTest, v, TRUE))
    /\ WF_vars(\E v \in PressureOut : lp_poll(UnderTest, v, TRUE))
    /\ WF_vars(\E v \in HeaterLow : hm_poll(UnderTest, v, TRUE))

SpecWaits == InitCavity /\ [][NextCavity]_vars /\ DeadlinesPass

(* Specification of set_gradient calls in which the calling thread keeps   *)
(* running through _get_step_direction, whatever the reads return.         *)

\* the steps of _get_step_direction: the read, and the monitor call after a
\* failed read
GetStepDirectionRuns ==
    \/ \E v \in GsetReads(UnderTest) : get_step_direction(UnderTest, v)
    \/ cav[UnderTest].mon_ret = "get_dir" /\ monitor_first(UnderTest)
    \/ cav[UnderTest].mon_ret = "get_dir" /\ monitor_last(UnderTest)

SpecRetry == InitCavity /\ [][NextCavity]_vars /\ WF_vars(GetStepDirectionRuns)

(* Specification of single calls of Zone.check_percent_heat_change: the    *)
(* zone holds 10 MV/m in every cavity, in half of them, or in none; each   *)
(* entry of the proposal is None, 0 or 11 MV/m, or the list is too short   *)
(* or too long.                                                            *)

ZoneGradients ==
    { [i \in 1..ZoneSize |-> 10],
      [i \in 1..ZoneSize |-> IF i <= 4 THEN 10 ELSE 0],
      [i \in 1..ZoneSize |-> 0] }

ProposedGradients == {None, 0, 11}

Proposals ==
    [1..ZoneSize -> ProposedGradients]
        \cup {<<>>, [i \in 1..(ZoneSize - 1) |-> None], [i \in 1..(ZoneSize + 1) |-> 0]}

Percentages == {10, 25, 99, 101}

InitHeat ==
    /\ InitSM /\ InitCavities
    /\ cs = CsIdle
    /\ th = [t \in Threads |-> ThIdle]
    /\ orc = OrcIdle
    /\ scan = ScanIdle
    /\ mn = MnIdle
    /\ wg = WgIdle
    /\ mon = MonIdle
    /\ lk = LkIdle
    /\ tc = TcIdle
    /\ gm = GmIdle
    /\ ev = EvIdle
    /\ rs = RsIdle
    /\ hc \in {[HcIdle EXCEPT !.pc = "called", !.current = z, !.gradients = g, !.percentage = p] :
                  z \in ZoneGradients, g \in Proposals, p \in Percentages}

NextHeat ==
    \/ \E r \in BOOLEAN : check_percent_heat_change(r)

SpecHeat == InitHeat /\ [][NextHeat]_vars

(* Specification of the locks: two callback threads, a worker thread and   *)
(* the main thread, each calling its methods one after the other.          *)

NextLocks ==
    \/ \E t \in LockThreads : \E p \in Calls(t) : lock_call(t, p)
    \/ \E t \in LockThreads : lock_acquire(t)
    \/ \E t \in LockThreads : lock_release(t)
    \/ \E t \in LockThreads : map_step(t)
    \/ \E t \in LockThreads : check_state_step(t)
    \/ \E t \in LockThreads, r \in Responses : input_step(t, r)
    \/ \E t \in LockThreads : first_step(t)
    \/ \E t \in LockThreads : other_step(t)

SpecLocks == Init /\ [][NextLocks]_vars

(* Specification of threshold callbacks: a callback is made once for each  *)
(* signal, with a low bound, a high bound or both, and values are          *)
(* delivered to it in any order.                                           *)

ThresholdBounds == {<<None, None>>, <<None, 2>>, <<1, None>>, <<1, 2>>, <<1, 1>>, <<2, 1>>}
ThresholdValues == {0, 1, 2, 3}

NextThreshold ==
    \/ \E n \in PVNames, b \in ThresholdBounds : add_threshold_cb(n, b[1], b[2])
    \/ \E n \in PVNames, v \in ThresholdValues : threshold_cb(n, v)

SpecThreshold == Init /\ [][NextThreshold]_vars

(* Specification of the ceiling of one cavity: it is constructed with or   *)
(* without a requested ceiling, and update_gset_max is called any number   *)
(* of times, with or without a new ceiling.                                *)

RequestedCeilings == {None, 6, 25, 500}
HardwareCeilings == {10, 25}
OperationalCeilings == {8, 10, 25}
GsetMins == {0, 3, 5}

InitGsetMax ==
    /\ InitSM /\ InitCavities
    /\ cs = CsIdle
    /\ th = [t \in Threads |-> ThIdle]
    /\ orc = OrcIdle
    /\ scan = ScanIdle
    /\ mn = MnIdle
    /\ wg = WgIdle
    /\ mon = MonIdle
    /\ hc = HcIdle
    /\ lk = LkIdle
    /\ tc = TcIdle
    /\ ev = EvIdle
    /\ rs = RsIdle
    /\ gm \in {cavity_init(lo, r, d, o) : lo \in GsetMins, r \in RequestedCeilings,
                                         d \in HardwareCeilings, o \in OperationalCeilings}

NextGsetMax ==
    \/ \E r \in RequestedCeilings : update_gset_max(r)

SpecGsetMax == InitGsetMax /\ [][NextGsetMax]_vars

(* Specification of the driver's callbacks: connection changes and RF      *)
(* state values arrive for two signals in any order.                       *)

NextCallbacks ==
    \/ \E n \in PVNames, conn \in BOOLEAN : connection_cb(n, conn)
    \/ \E n \in PVNames, value \in {0, 1} : rf_on_cb(n, value)

SpecCallbacks == Init /\ [][NextCallbacks]_vars

(* Specification of the draw of a round: three cavities in two zones, at   *)
(* 0, 5.5 or 10 MV/m or with no value, between 5 and 10 or 5 and 6 MV/m.   *)

SampleGsets == {None, 0, 550000, 1000000}
SampleConfigs == {BaseConfig, [BaseConfig EXCEPT !.gset_max = 600000]}

InitSample ==
    /\ InitSM /\ InitMain
    /\ cfg \in [Cavities -> SampleConfigs]
    /\ autoheat = 1
    /\ gset \in [Cavities -> SampleGsets]
    /\ writes = [c \in Cavities |-> <<>>]
    /\ cav = [c \in Cavities |-> CavIdle]

NextSample ==
    \/ \E sample \in SUBSET Cavities, picks \in [Cavities -> OffsetList] :
          random_cavity_gradients_changes(sample, picks)

SpecSample == InitSample /\ [][NextSample]_vars

(* Specification of update_cavity_gsets_parallel on batches of up to three *)
(* cavities, one of each family, as collect_data_at_gradients calls it.    *)
(* Every read of GSET succeeds here, with settle = 0 monitor makes only    *)
(* its final check, and a sleep of a ramp wait uses up ramp_timeout.       *)

AllTo(g) == [c \in Cavities |-> g]

\* the calls made: the empty batch, batches whose targets are all half a step
\* up, batches in which the target of the second cavity is above gset_max, and
\* a batch that takes a cavity back to a setpoint 0.00005 above its gset_max
BatchCalls ==
    { [cavs |-> <<>>, new_gsets |-> AllTo(725000)],
      [cavs |-> <<"c3">>, new_gsets |-> AllTo(1000005)],
      [cavs |-> <<"c1">>, new_gsets |-> AllTo(725000)],
      [cavs |-> <<"c1", "c2">>, new_gsets |-> AllTo(725000)],
      [cavs |-> <<"c1", "c2">>, new_gsets |-> [AllTo(725000) EXCEPT !["c2"] = 1100000]],
      [cavs |-> <<"c1", "c2", "c3">>, new_gsets |-> [AllTo(725000) EXCEPT !["c2"] = 1100000]] }

InitBatch ==
    /\ InitSM
    /\ InitMain
    /\ cfg = [c \in Cavities |->
                 IF c = "c1" THEN BaseConfig
                 ELSE IF c = "c2" THEN [BaseConfig EXCEPT !.controls = "1.0", !.gset_min = 300000]
                 ELSE [BaseConfig EXCEPT !.controls = "3.0"]]
    /\ autoheat = 1
    /\ gset \in [Cavities -> StartGsets]
    /\ writes = [c \in Cavities |-> <<>>]
    /\ cav = [c \in Cavities |-> CavIdle]

NextBatch ==
    \/ \E b \in BatchCalls : update_cavity_gsets_parallel(b.cavs, b.new_gsets, 0, TRUE)
    \/ \E r \in Responses : orchestrator_check_answer(r)
    \/ dispatch_workers
    \/ \E c \in Cavities, ru \in BOOLEAN, rd \in BOOLEAN :
          update_cavity_gset(c, gset[c], ru, rd)
    \/ \E c \in Cavities : collect_result(c)
    \/ return_status
    \/ \E c \in Cavities : get_step_direction(c, gset[c])
    \/ \E c \in Cavities : monitor_last(c)
    \/ \E c \in Cavities, d \in DetuneVals : tune_check(c, d)
    \/ \E c \in Cavities, d \in DetuneVals, t \in BOOLEAN : tune_poll(c, d, t)
    \/ \E c \in Cavities, r \in Responses : tune_prompt_answer(c, r)
    \/ \E c \in Cavities, v \in JtVals : jt_check(c, v)
    \/ \E c \in Cavities, v \in JtVals, t \in BOOLEAN : jt_poll(c, v, t)
    \/ \E c \in Cavities, v \in PressureVals : lp_check(c, v)
    \/ \E c \in Cavities, v \in PressureVals, t \in BOOLEAN : lp_poll(c, v, t)
    \/ \E c \in Cavities, v \in HeaterVals : hm_check(c, v)
    \/ \E c \in Cavities, v \in HeaterVals, t \in BOOLEAN : hm_poll(c, v, t)
    \/ \E c \in Cavities : put_gset(c)
    \/ \E c \in Cavities : reread_gset(c, gset[c])
    \/ \E c \in Cavities, on \in BOOLEAN, d \in GmesDeltas, s \in Stat1Vals, t \in BOOLEAN :
          ramp_watch(c, on, d, s, t)
    \/ \E c \in Cavities, on \in BOOLEAN, d \in GmesDeltas, s \in Stat1Vals, k \in {RampTimeout + 1} :
          ramp_poll(c, on, d, s, k)
    \/ rf_turned_off("pvA") /\ NoCav
    \/ rf_turned_on("pvA") /\ NoCav

SpecBatch == InitBatch /\ [][NextBatch]_vars

(* Specification of a run: main with any command, or the random-sample     *)
(* scan procedure called with the parameters it declares.                  *)

NextScan ==
    \/ \E n \in 1..MaxSamples : run_random_sample_random_offset_gradient_scan(n)
    \/ \E cavs \in SampleSets : get_random_cavity_gradients_changes(cavs)
    \/ \E e \in HeatGateOutcomes : check_zone_heat(e)
    \/ \E o \in update_cavity_gsets_parallel_results(scan.cavs) : collect_data_at_gradients_apply(o)
    \/ \E ok \in BOOLEAN : settle_and_collect_data(ok)
    \/ \E o \in update_cavity_gsets_parallel_results(scan.cavs) : collect_data_at_gradients_rollback(o)
    \/ \E r \in Responses : scan_ask_restore(r)
    \/ \E ok \in BOOLEAN : scan_restore_cavity(ok)
    \/ \E r \in Responses : scan_ask_continue(r)
    \/ \E c \in Commands, k \in SimpleSteps : main(c, k)
    \/ \E e \in ProcedureEnds, m \in BOOLEAN : run_find_fe_process(e, m)
    \/ \E e \in ProcedureEnds, m \in BOOLEAN : run_gradient_scan_levelized_walk(e, m)
    \/ \E e \in ProcedureEnds, w \in BOOLEAN : run_simple_gradient_scan(e, w)
    \/ \E ok \in BOOLEAN : simple_restore_gset(ok)
    \/ main_random_sample_call
    \/ main_finally
    \/ main_return

SpecScan == Init /\ [][NextScan]_vars

(* Specification of walks: walk_gradient and restore_gset calls on one     *)
(* cavity, one after the other, from its construction-time setpoint.       *)

\* targets: 0, below gset_min, the start, half a step, one, two and three steps
\* above it, gset_max, and above gset_max
WalkTargets == {0, 450000, 600000, 700000, 750000, 800000, 900000, 1000000, 1100000}

\* step sizes: gmes_step_size (None), the default 1.0, and 1.5 MV/m
WalkStepSizes == {None, DefaultStepSize, 150000}

InitWalk ==
    /\ InitSM
    /\ cs = CsIdle
    /\ th = [t \in Threads |-> ThIdle]
    /\ orc = OrcIdle
    /\ scan = ScanIdle
    /\ mn = MnIdle
    /\ cfg = [c \in Cavities |-> BaseConfig]
    /\ autoheat = 1
    /\ gset \in [Cavities -> StartGsets]
    /\ writes = [c \in Cavities |-> <<>>]
    /\ cav = [c \in Cavities |-> CavIdle]
    /\ wg = [WgIdle EXCEPT !.gset_init = gset[UnderTest]]
    /\ mon = MonIdle
    /\ hc = HcIdle
    /\ lk = LkIdle
    /\ tc = TcIdle
    /\ gm = GmIdle
    /\ ev = EvIdle
    /\ rs = RsIdle

NextWalk ==
    \/ \E g \in WalkTargets, s \in WalkStepSizes, f \in BOOLEAN : walk_gradient(UnderTest, g, s, f)
    \/ \E f \in BOOLEAN : restore_gset(UnderTest, f)
    \/ \E ru \in BOOLEAN, rd \in BOOLEAN : walk_set_gradient(UnderTest, ru, rd)
    \/ \E v \in GsetReads(UnderTest) : walk_return(UnderTest, v)
    \/ get_step_direction(UnderTest, gset[UnderTest])
    \/ monitor_last(UnderTest)
    \/ \E d \in DetuneVals : tune_check(UnderTest, d)
    \/ \E d \in DetuneVals, t \in BOOLEAN : tune_poll(UnderTest, d, t)
    \/ \E r \in Responses : tune_prompt_answer(UnderTest, r)
    \/ \E v \in JtVals : jt_check(UnderTest, v)
    \/ \E v \in JtVals, t \in BOOLEAN : jt_poll(UnderTest, v, t)
    \/ \E v \in PressureVals : lp_check(UnderTest, v)
    \/ \E v \in PressureVals, t \in BOOLEAN : lp_poll(UnderTest, v, t)
    \/ \E v \in HeaterVals : hm_check(UnderTest, v)
    \/ \E v \in HeaterVals, t \in BOOLEAN : hm_poll(UnderTest, v, t)
    \/ put_gset(UnderTest)
    \/ reread_gset(UnderTest, gset[UnderTest])

SpecWalk == InitWalk /\ [][NextWalk]_vars

(* Specification of monitor calls of the main thread while callbacks       *)
(* record and clear violations.                                            *)

NextMonitor ==
    \/ \E d \in Durations, ui \in BOOLEAN : monitor(d, ui)
    \/ monitor_check_state
    \/ \E r \in Responses, k \in PromptTicks : monitor_check_state_answer(r, k)
    \/ \E k \in SleepTicks : monitor_sleep(k)
    \/ \E n \in PVNames : pv_disconnected(n) /\ NoCav
    \/ \E n \in PVNames : pv_reconnected(n) /\ NoCav

SpecMonitor == Init /\ [][NextMonitor]_vars

----------------------------------------------------------------------------
(* C1: in every state reachable by record operations, daq_good() is true   *)
(* iff no signal is marked disconnected, none is marked RF-off, none is    *)
(* marked bad-HV, and the threshold-violation map is empty.                *)
C1_DaqGoodIffNoViolation ==
    daq_good <=>
        /\ \A n \in DOMAIN pv_connected : pv_connected[n]
        /\ \A n \in DOMAIN rf_on : rf_on[n]
        /\ \A n \in DOMAIN hv_bad : ~hv_bad[n]
        /\ DOMAIN threshold_exceeded = {}

\* daq_good() is true although every map has entries (all of them recovered)
C1_Witness ==
    /\ daq_good
    /\ DOMAIN pv_connected = PVNames
    /\ DOMAIN rf_on = PVNames
    /\ DOMAIN hv_bad = PVNames

(* C2: once all driver threads have delivered their disconnect/reconnect   *)
(* and RF-off/RF-on pairs, in any interleaving and on shared names,        *)
(* daq_good() is true and check_state(user_input=False) does not raise.    *)
C2_SettledIsSafe ==
    ThreadsDone => (daq_good /\ cs.pc # "raised" /\ cs.pc # "prompt")

\* all threads are done, both kinds of event hit a shared name, the check returned
C2_Witness ==
    /\ ThreadsDone
    /\ cs.pc = "returned"
    /\ DOMAIN pv_connected # {}
    /\ DOMAIN rf_on # {}

(* C3: check_state raises exactly when the state is bad and either         *)
(* user_input is false or the operator declines: it returns without a      *)
(* prompt when daq_good(), raises without a prompt when bad and            *)
(* user_input=False, prompts when bad and user_input=True and then returns *)
(* iff the answer starts (after blanks, in either case) with y; it never   *)
(* changes the interlock record.                                           *)
AnswersContinue(r) ==
    \E i \in 1..Len(r) : r[i] \in {"y", "Y"} /\ \A j \in 1..(i - 1) : r[j] = " "

C3_CheckStateContract ==
    [][ (cs' # cs) =>
          /\ UNCHANGED smMaps
          /\ IF cs.pc = "prompt"
             THEN /\ ~daq_good
                  /\ cs'.prompted /\ cs'.user_input
                  /\ cs'.pc = (IF AnswersContinue(cs'.response) THEN "returned" ELSE "raised")
             ELSE /\ daq_good => (cs'.pc = "returned" /\ ~cs'.prompted)
                  /\ (~daq_good /\ ~cs'.user_input) => (cs'.pc = "raised" /\ ~cs'.prompted)
                  /\ (~daq_good /\ cs'.user_input) => (cs'.pc = "prompt" /\ cs'.prompted)
      ]_vars

\* the state was bad, the operator was asked and answered " y": check_state returned
C3_Witness ==
    /\ cs.pc = "returned"
    /\ cs.prompted
    /\ cs.response = <<" ", "Y">>
    /\ ~daq_good

----------------------------------------------------------------------------
(* C4: no worker of update_cavity_gsets_parallel (set_gradient called with *)
(* interactive=False) is ever waiting for an answer of the operator.       *)
C4_NoWorkerPrompt ==
    \A c \in Cavities :
        (cav[c].pc # "idle" /\ ~cav[c].interactive) =>
            cav[c].pc \notin {"tune_prompt", "ramp_prompt"}

(* C5: when update_cavity_gsets_parallel has returned, its status is       *)
(* SUCCESS iff the worker of every cavity of the batch succeeded, and the  *)
(* failed list holds exactly the cavities whose worker did not succeed.    *)
C5_StatusMatchesWorkers ==
    orc.pc = "returned" =>
        /\ orc.status = "SUCCESS" <=> \A c \in SeqToSet(orc.cavs) : worker_succeeded(c)
        /\ SeqToSet(orc.failed) = {c \in SeqToSet(orc.cavs) : ~worker_succeeded(c)}

(* C6: a worker runs only after the check_state of the call has returned;  *)
(* when that check_state raised, the call returns FAIL with the whole      *)
(* batch in the failed list, no worker was started and no GSET was written.*)
C6_CheckBeforeDispatch ==
    /\ (\E c \in Cavities : cav[c].pc # "idle") => cs.pc = "returned"
    /\ (orc.pc = "returned" /\ cs.pc = "raised") =>
          /\ orc.status = "FAIL"
          /\ orc.failed = orc.cavs
          /\ \A c \in Cavities :
                cav[c].pc = "idle" /\ writes[c] = <<>> /\ gset[c] \in StartGsets

\* the operator declined at the check of a call for three cavities, the call returned
C6_Witness ==
    /\ orc.pc = "returned"
    /\ cs.pc = "raised"
    /\ cs.prompted
    /\ Len(orc.cavs) = 3
    /\ orc.status = "FAIL"

\* set_gradient on cavity c has raised out of _validate_requested_gradient without a write
RejectedUnwritten(c) ==
    /\ cav[c].pc = "raised"
    /\ cav[c].where = "validate"
    /\ writes[c] = <<>>

(* C7 as stated: for a cavity that is not bypassed, every target outside   *)
(* [gset_min, gset_max] is rejected by validation and nothing is written.  *)
C7_OutsideBandRejected ==
    \A c \in Cavities :
        ( /\ cav[c].pc # "idle"
          /\ ~cfg[c].bypassed_eff
          /\ (cav[c].req < cfg[c].gset_min \/ cav[c].req > cfg[c].gset_max) )
        => RejectedUnwritten(c)

(* C7, amended: for a cavity that is not bypassed, every non-zero target   *)
(* below gset_min and every target more than 0.0001 above gset_max is      *)
(* rejected by validation and nothing is written.                          *)
C7_NonZeroOutsideBandRejected ==
    \A c \in Cavities :
        ( /\ cav[c].pc # "idle"
          /\ ~cfg[c].bypassed_eff
          /\ \/ cav[c].req # 0 /\ cav[c].req < cfg[c].gset_min
             \/ cav[c].req > cfg[c].gset_max + RoundingSlack )
        => RejectedUnwritten(c)

\* a forced request just below gset_min, every other check passing, was rejected
C7_Witness ==
    /\ RejectedUnwritten(UnderTest)
    /\ cav[UnderTest].req = 499990
    /\ cav[UnderTest].force
    /\ cav[UnderTest].exc = "ValueError"
    /\ ~cfg[UnderTest].bypassed_eff /\ ~cfg[UnderTest].tuner_bad /\ autoheat = 1

\* every check of _validate_requested_gradient before the step-size check passes
OtherChecksPass(c) ==
    /\ autoheat = 1
    /\ ~cfg[c].tuner_bad
    /\ ~(cav[c].gset # 0 /\ cfg[c].bypassed_eff)
    /\ ~(cav[c].gset # 0 /\ cav[c].gset < cfg[c].gset_min)
    /\ cav[c].gset <= cfg[c].gset_max
    /\ cav[c].current # None

StepDistance(c) == Abs(cav[c].gset - cav[c].current)

RejectedByValidation(c) == cav[c].pc = "raised" /\ cav[c].where = "validate"

C9_InterlocksIgnoreForce ==
    \A c \in Cavities :
        ( /\ cav[c].pc # "idle"
          /\ \/ autoheat # 1
             \/ cfg[c].tuner_bad
             \/ cav[c].req # 0 /\ cfg[c].bypassed_eff )
        => RejectedUnwritten(c)

(* C9, amended: whatever the force flag, set_gradient raises without a     *)
(* write when auto-heat is not enabled, or the tuner is flagged bad, or    *)
(* the cavity is bypassed_eff and the target is still non-zero after the   *)
(* rounding adjustment to gset_max.                                        *)
C9_InterlocksIgnoreForceAfterClamp ==
    \A c \in Cavities :
        ( /\ cav[c].pc # "idle"
          /\ \/ autoheat # 1
             \/ cfg[c].tuner_bad
             \/ cav[c].gset # 0 /\ cfg[c].bypassed_eff )
        => RejectedUnwritten(c)

\* a forced, in-band request on a cavity with a bad tuner was rejected
C9_Witness ==
    /\ RejectedUnwritten(UnderTest)
    /\ cav[UnderTest].force
    /\ cfg[UnderTest].tuner_bad
    /\ autoheat = 1
    /\ cav[UnderTest].req = 800000
    /\ cav[UnderTest].exc = "RuntimeError"

InBand(c, v) == cfg[c].gset_min <= v /\ v <= cfg[c].gset_max

(* C10 as stated: every value written to the GSET of a cavity that is not  *)
(* bypassed, intermediate ramp writes included, is 0 or within             *)
(* [gset_min, gset_max].                                                   *)
C10_WritesInBand ==
    \A c \in Cavities :
        ~cfg[c].bypassed_eff =>
            \A i \in 1..Len(writes[c]) : writes[c][i] = 0 \/ InBand(c, writes[c][i])

(* C10, amended: for a cavity that is not bypassed and starts within the   *)
(* band, every value written is between 0 and gset_max, a written value    *)
(* strictly between 0 and gset_min occurs only on a ramp to 0, and the     *)
(* last write of a completed call is the validated target, which is 0 or   *)
(* within [gset_min, gset_max].                                            *)
C10_WritesBoundedTargetInBand ==
    \A c \in Cavities :
        ~cfg[c].bypassed_eff =>
            /\ \A i \in 1..Len(writes[c]) :
                  /\ 0 <= writes[c][i] /\ writes[c][i] <= cfg[c].gset_max
                  /\ (writes[c][i] # 0 /\ writes[c][i] < cfg[c].gset_min) => cav[c].gset = 0
            /\ cav[c].pc = "done" =>
                  /\ Len(writes[c]) > 0
                  /\ writes[c][Len(writes[c])] = cav[c].gset
                  /\ gset[c] = cav[c].gset
                  /\ (cav[c].gset = 0 \/ InBand(c, cav[c].gset))

\* a forced ramp to 0 has completed after writing values below gset_min
C10_Witness ==
    /\ cav[UnderTest].pc = "done"
    /\ ~cfg[UnderTest].bypassed_eff
    /\ cav[UnderTest].gset = 0
    /\ gset[UnderTest] = 0
    /\ \E i \in 1..Len(writes[UnderTest]) :
          0 < writes[UnderTest][i] /\ writes[UnderTest][i] < cfg[UnderTest].gset_min

(* C11: every write of set_gradient to GSET differs from the setpoint read  *)
(* just before it (which is the value GSET holds) by at most the cavity's  *)
(* gmes_step_size, for every accepted target, forced or not.               *)
C11_WriteWithinStep ==
    [][ \A c \in Cavities :
          (writes'[c] # writes[c] /\ writes'[c] # <<>>) =>
              /\ writes'[c] = Append(writes[c], gset'[c])
              /\ cav[c].actual_gset = gset[c]
              /\ Abs(gset'[c] - cav[c].actual_gset) <= cfg[c].gmes_step_size
      ]_vars

\* a forced set_gradient(0) from 7 MV/m has completed in fourteen writes
C11_Witness ==
    /\ cav[UnderTest].pc = "done"
    /\ cav[UnderTest].force
    /\ cav[UnderTest].gset = 0
    /\ Len(writes[UnderTest]) = 14
    /\ gset[UnderTest] = 0

\* collect_data_at_gradients is executing (apply loop, data collection or rollback loop)
InCollect(s) == s.pc \in {"apply", "settle", "rollback"}

(* C12: a pass of the apply loop of collect_data_at_gradients ends in one  *)
(* of four ways: the batch is repeated (retry), UserScanAbort is raised    *)
(* (abort), the loop is left without data collection (skip), or data       *)
(* collection starts (SUCCESS or accept); a row is written only after the  *)
(* apply phase ended with SUCCESS, and at most once per call.              *)
C12_ApplyLoopContract ==
    [][ /\ scan.pc = "apply" =>
              \/ scan'.pc \in {"apply", "settle", "rollback"}
              \/ scan'.pc = "raised" /\ scan'.exc = "UserScanAbort"
        /\ scan'.rows > scan.rows => scan.status = "SUCCESS" /\ scan'.rows = 1
      ]_vars

(* C13: whenever collect_data_at_gradients ends, unless its apply phase    *)
(* ended by UserScanAbort, update_cavity_gsets_parallel has been called at *)
(* least once with the pre-batch values, whatever happened during the      *)
(* settle and data-collection step.                                        *)
C13_RollbackAlwaysAttempted ==
    [][ (/\ InCollect(scan)
         /\ ~InCollect(scan')
         /\ ~(scan.pc = "apply" /\ scan'.exc = "UserScanAbort"))
            => \E k \in 1..Len(scan'.batches) : scan'.batches[k] = "old"
      ]_vars

(* C14: a rollback batch that returns SUCCESS ends the rollback loop       *)
(* without a question; one that fails leads to exactly one operator        *)
(* question, after which either another rollback batch follows (retry) or  *)
(* UserScanAbort is raised (declined).                                     *)
C14_RollbackPrompt ==
    [][ (scan.pc = "rollback" /\ scan' # scan) =>
            \/ /\ scan'.status = "SUCCESS"
               /\ scan'.pc \in {"sample", "returned"}
               /\ scan'.questions = scan.questions
            \/ /\ scan'.status # "SUCCESS"
               /\ scan'.questions = scan.questions + 1
               /\ \/ scan'.pc = "rollback"
                  \/ scan'.pc = "raised" /\ scan'.exc = "UserScanAbort"
      ]_vars

C16_PsetsRestoredEveryCommand ==
    mn.pc = "exited" =>
        /\ mn.psets >= 1
        /\ mn.exc = "UserScanAbort" => mn.exit # 0

(* C16 amended: for the three scan commands, when main has ended,          *)
(* restore_psets was called at least once, however the procedure ended;    *)
(* for every command a run ended by an exception, UserScanAbort included,  *)
(* returned 1 and any other run returned 0.                                *)
C16_ScanCommandsRestorePsets ==
    mn.pc = "exited" =>
        /\ mn.command # "fe_onset" => mn.psets >= 1
        /\ mn.exit = IF mn.exc = "none" THEN 0 ELSE 1

\* a simple scan ended by UserScanAbort has exited with status 1 after restore_psets
C16_Witness ==
    /\ mn.pc = "exited"
    /\ mn.command = "simple_gradient_scan"
    /\ mn.exc = "UserScanAbort"
    /\ mn.psets >= 1
    /\ mn.exit = 1

(* C17: when a run has ended, every cavity whose GSET the run left changed *)
(* has had a restoration attempted after its last change.                  *)
C17_GsetsRestoredAtExit ==
    /\ mn.pc = "exited" => (mn.modified => mn.gset_restore)
    /\ scan.pc \in {"returned", "raised"} => scan.modified \subseteq scan.restored

(* C18: a restore_gset call made while GSET holds gset_init returns at   *)
(* once, with no set_gradient call and no write; made at any other value   *)
(* it starts exactly the walk that walk_gradient(gset_init) with the same  *)
(* keyword arguments starts.                                               *)
C18_RestoreIsWalkOrNothing ==
    [][ (wg'.n = wg.n + 1 /\ wg'.kind = "restore") =>
            IF gset[UnderTest] = wg.gset_init
            THEN /\ wg'.pc = "done"
                 /\ wg'.log = <<>>
                 /\ UNCHANGED <<gset, writes, cav>>
            ELSE wg' = [walk_start(UnderTest, wg.gset_init, DefaultStepSize, wg'.force)
                           EXCEPT !.kind = "restore"]
      ]_vars

\* after a first call, a restore_gset found GSET at gset_init and returned without a write
C18_Witness ==
    /\ wg.n = 2
    /\ wg.kind = "restore"
    /\ wg.pc = "done"
    /\ wg.log = <<>>
    /\ gset[UnderTest] = wg.gset_init

(* C19: when a walk to gset_init has completed after a completed walk to   *)
(* some target, GSET is within one step size of gset_init.                 *)
C19_RoundTrip ==
    (/\ wg.n >= 2
     /\ wg.pc = "done"
     /\ wg.prev = "done"
     /\ wg.kind = "walk"
     /\ wg.gset = wg.gset_init)
        => Abs(gset[UnderTest] - wg.gset_init) <= wg.step_size

\* a walk back to gset_init has completed in at least two set_gradient steps
C19_Witness ==
    /\ wg.n = 2
    /\ wg.pc = "done"
    /\ wg.prev = "done"
    /\ wg.kind = "walk"
    /\ wg.gset = wg.gset_init
    /\ ~wg.force
    /\ Len(wg.log) >= 4
    /\ gset[UnderTest] = wg.gset_init

(* C20 as stated: every walk_gradient call that ends, other than by an     *)
(* interlock or a failed read, has ended normally with GSET equal to the   *)
(* target.                                                                 *)
C20_WalkReachesTarget ==
    (/\ wg.kind = "walk"
     /\ wg.pc \in {"done", "raised"}
     /\ wg.exc \notin {"RuntimeError", "TypeError"})
        => (wg.pc = "done" /\ gset[UnderTest] = wg.gset)

(* C20 amended: every set_gradient call of a walk asks for the setpoint    *)
(* just read moved by exactly step_size toward the target, and not past    *)
(* it, while the gap is larger than step_size, and for the target itself   *)
(* otherwise; a walk that ends normally leaves GSET equal to the target.   *)
C20_WalkSteps ==
    [][ /\ (wg.pc = "loop" /\ cav[UnderTest].pc = "idle" /\ cav'[UnderTest].pc # "idle") =>
              IF Abs(wg.gset - wg.actual_gset) > wg.step_size
              THEN /\ Abs(cav'[UnderTest].req - wg.actual_gset) = wg.step_size
                   /\ Abs(wg.gset - cav'[UnderTest].req)
                         = Abs(wg.gset - wg.actual_gset) - wg.step_size
              ELSE cav'[UnderTest].req = wg.gset
        /\ (wg.pc = "loop" /\ wg'.pc = "done") => gset'[UnderTest] = wg'.gset
      ]_vars

\* an unforced walk from 7 to 10 MV/m in steps of 1 MV/m has ended at the target
C20_Witness ==
    /\ wg.kind = "walk"
    /\ wg.pc = "done"
    /\ ~wg.force
    /\ wg.gset = 1000000
    /\ wg.step_size = DefaultStepSize
    /\ Len(wg.log) = 6
    /\ gset[UnderTest] = 1000000

----------------------------------------------------------------------------
(* C21: a walk_gradient call whose target is not an acceptable setpoint    *)
(* (above gset_max, or non-zero and below gset_min) never ends normally    *)
(* and makes no write to GSET: GSET keeps its pre-call value.              *)
C21_BadTargetNoWrite ==
    (/\ wg.kind = "walk"
     /\ \/ wg.gset > cfg[UnderTest].gset_max
        \/ wg.gset # 0 /\ wg.gset < cfg[UnderTest].gset_min)
        => /\ wg.pc # "done"
           /\ wg.log = <<>>
           /\ cav[UnderTest].pc # "idle" => writes[UnderTest] = <<>>

----------------------------------------------------------------------------
----------------------------------------------------------------------------
----------------------------------------------------------------------------
(* C24: each of the JT, linac pressure and heater margin waits ends: a     *)
(* wait that has started is left, and it is left on a recovered reading    *)
(* or by a RuntimeError for the timeout; a reading within limits at entry  *)
(* lets the call go on to the next check without waiting.                  *)
C24_WaitsTerminate ==
    /\ (cav[UnderTest].pc = "jt_wait") ~> (cav[UnderTest].pc # "jt_wait")
    /\ (cav[UnderTest].pc = "lp_wait") ~> (cav[UnderTest].pc # "lp_wait")
    /\ (cav[UnderTest].pc = "hm_wait") ~> (cav[UnderTest].pc # "hm_wait")
    /\ [][ /\ (cav[UnderTest].pc = "jt_wait" /\ cav'[UnderTest].pc # "jt_wait") =>
                 \/ /\ cav'[UnderTest].pc = "raised"
                    /\ cav'[UnderTest].exc = "RuntimeError" /\ cav'[UnderTest].where = "jt"
                 \/ cav'[UnderTest].pc = "lp_check" /\ "jt" \in cav'[UnderTest].checked
           /\ (cav[UnderTest].pc = "lp_wait" /\ cav'[UnderTest].pc # "lp_wait") =>
                 \/ /\ cav'[UnderTest].pc = "raised"
                    /\ cav'[UnderTest].exc = "RuntimeError" /\ cav'[UnderTest].where = "pressure"
                 \/ cav'[UnderTest].pc = "hm_check" /\ "pressure" \in cav'[UnderTest].checked
           /\ (cav[UnderTest].pc = "hm_wait" /\ cav'[UnderTest].pc # "hm_wait") =>
                 \/ /\ cav'[UnderTest].pc = "raised"
                    /\ cav'[UnderTest].exc = "RuntimeError" /\ cav'[UnderTest].where = "heater"
                 \/ cav'[UnderTest].pc = "put" /\ "heater" \in cav'[UnderTest].checked
           /\ (cav[UnderTest].pc = "jt_check" /\ "jt" \in cav'[UnderTest].checked) =>
                 cav'[UnderTest].pc = "lp_check"
           /\ (cav[UnderTest].pc = "lp_check" /\ "pressure" \in cav'[UnderTest].checked) =>
                 cav'[UnderTest].pc = "hm_check"
           /\ (cav[UnderTest].pc = "hm_check" /\ "heater" \in cav'[UnderTest].checked) =>
                 cav'[UnderTest].pc = "put"
         ]_vars

\* a JT wait has ended by its timeout
C24_Witness ==
    /\ cav[UnderTest].pc = "raised"
    /\ cav[UnderTest].where = "jt"
    /\ cav[UnderTest].exc = "RuntimeError"
    /\ "tuner" \in cav[UnderTest].checked

----------------------------------------------------------------------------
(* C25: the retry of a failed read of GSET in _get_step_direction ends:    *)
(* a call that is reading GSET for its step direction, or waiting to read  *)
(* it again, eventually has its direction or has raised.                   *)
C25_RetryEnds ==
    (cav[UnderTest].pc = "get_dir")
        ~> ~(\/ cav[UnderTest].pc = "get_dir"
             \/ cav[UnderTest].pc \in {"mon_first", "mon_last"} /\ cav[UnderTest].mon_ret = "get_dir")

----------------------------------------------------------------------------
(* C26: once a ramp has been detected after a write, _set_gradient leaves  *)
(* its wait only when the ramp indication has cleared, by the exception of *)
(* is_gradient_ramping for RF off, or when more than ramp_timeout has      *)
(* passed since the window started: then a non-interactive call raises     *)
(* and an interactive one asks the operator, whose refusal raises and      *)
(* whose consent restarts the window at zero and resumes the wait.         *)
C26_RampWait ==
    [][ /\ (cav[UnderTest].pc = "ramp_wait" /\ cav'[UnderTest].pc # "ramp_wait") =>
              \/ cav'[UnderTest].pc \in {"mon_first", "mon_last"}
              \/ cav'[UnderTest].pc = "raised" /\ cav'[UnderTest].where = "rf_off"
              \/ /\ cav'[UnderTest].pc = "raised" /\ cav'[UnderTest].where = "ramp"
                 /\ cav'[UnderTest].exc = "RuntimeError"
                 /\ ~cav[UnderTest].interactive
              \/ /\ cav'[UnderTest].pc = "ramp_prompt"
                 /\ cav[UnderTest].interactive
                 /\ cav'[UnderTest].ramp_elapsed > RampTimeout
        /\ (cav[UnderTest].pc = "ramp_wait" /\ cav'[UnderTest].pc = "ramp_wait") =>
              /\ cav'[UnderTest].ramp_elapsed >= cav[UnderTest].ramp_elapsed
              /\ cav'[UnderTest].ramp_elapsed <= RampTimeout
        /\ (cav[UnderTest].pc = "ramp_prompt" /\ cav'[UnderTest].pc # "ramp_prompt") =>
              \/ /\ cav'[UnderTest].pc = "raised" /\ cav'[UnderTest].where = "ramp"
                 /\ cav'[UnderTest].exc = "RuntimeError"
              \/ cav'[UnderTest].pc = "ramp_wait" /\ cav'[UnderTest].ramp_elapsed = 0
        /\ (cav[UnderTest].pc \in {"ramp_wait", "ramp_prompt"}) => UNCHANGED gset
      ]_vars

\* an interactive call is asking the operator after its ramp wait timed out
C26_Witness ==
    /\ cav[UnderTest].pc = "ramp_prompt"
    /\ cav[UnderTest].interactive
    /\ cav[UnderTest].wait_for_ramp
    /\ Len(writes[UnderTest]) >= 1
    /\ cav[UnderTest].ramp_elapsed > RampTimeout

C28_HeatChange ==
    (hc.pc \in {"raised", "returned"}) =>
        IF Len(hc.gradients) # ZoneSize THEN hc.pc = "raised"
        ELSE LET heat == SumHeat(hc.current, hc.gradients, ZoneSize)
                 change == Abs(heat.new - heat.old) * 100
                 exceeds == IF heat.old = 0 THEN heat.new # 0
                            ELSE change > hc.percentage * heat.old
             IN /\ hc.pc = "raised" <=> exceeds
                /\ hc.pc = "returned" =>
                       /\ hc.new_heat = heat.new /\ hc.old_heat = heat.old
                       /\ hc.rel_change = IF heat.old = 0 THEN 0
                                          ELSE rel_change_of(heat.new, heat.old)
                /\ (\A i \in 1..ZoneSize : hc.gradients[i] = None) =>
                       hc.pc = "returned" /\ hc.rel_change = 0
                /\ (heat.old > 0 /\ \A i \in 1..ZoneSize : hc.gradients[i] = 0) =>
                       /\ hc.percentage = 99 => hc.pc = "raised"
                       /\ hc.percentage = 101 => hc.pc = "returned" /\ hc.rel_change = -10000

(* C29: in a round of the random-sample scan the heat change of every      *)
(* zone with a drawn cavity has been checked exactly once when the batch   *)
(* is dispatched; a check that raises ends the round with no batch and no  *)
(* changed setpoint, and the scan goes on with the next round; no check is *)
(* made while the batch is applied or rolled back.                         *)
C29_HeatGate ==
    [][ /\ (scan.pc = "gate") =>
              /\ scan'.batches = <<>> /\ scan'.modified = scan.modified
              /\ scan'.skip => scan'.pc = (IF scan.i < scan.n_samples THEN "sample" ELSE "returned")
              /\ scan'.skip => scan'.i = (IF scan.i < scan.n_samples THEN scan.i + 1 ELSE scan.i)
        /\ (scan'.pc = "apply" /\ scan.pc \in {"sample", "gate"}) =>
              /\ ~scan'.skip
              /\ \A z \in ScanZones :
                    scan'.gated[z] = IF z \in {zone_of(c) : c \in scan'.cavs} THEN 1 ELSE 0
        /\ (Len(scan'.batches) > 0) =>
              /\ ~scan'.skip
              /\ \A z \in ScanZones :
                    scan'.gated[z] = IF z \in {zone_of(c) : c \in scan'.cavs} THEN 1 ELSE 0
        /\ (scan.pc \notin {"sample", "gate"}) => scan'.gated = scan.gated
      ]_vars

\* the check of the second zone of a round raised after the first had passed,
\* and the scan is at its next round
C29_Witness ==
    /\ scan.pc = "sample"
    /\ scan.skip
    /\ scan.i >= 2
    /\ scan.batches = <<>>
    /\ scan.gated = [z \in ScanZones |-> 1]

(* C30: the StateMonitor maps are read and changed only by a thread that   *)
(* has the state lock; no thread asks for a lock it has; a thread that has *)
(* the state lock has no other lock; and a thread that waits for a lock    *)
(* waits for a thread that is not itself waiting, so no set of threads     *)
(* waits in a circle.                                                      *)
C30_LockDiscipline ==
    /\ [][ /\ (smMaps' # smMaps) => state_lock # "free" /\ state_lock' = state_lock
           /\ \A t \in LockThreads :
                 (lk'.prog[t] # lk.prog[t] /\ at(t)[1] \in {"put", "del", "clear", "read", "check_state"})
                     => state_lock = t
         ]_vars
    /\ [](\A t \in LockThreads :
             /\ at(t)[1] = "acquire" => at(t)[2] \notin held(t)
             /\ StateLock \in held(t) => held(t) = {StateLock}
             /\ (at(t)[1] = "acquire" /\ holder(at(t)[2]) # "free") =>
                    at(holder(at(t)[2]))[1] \notin {"acquire", "none"})

\* the main thread asks the operator inside check_state while a callback
\* thread waits for the state lock, the other callback thread has
\* has_connected_lock and the worker has the linac's lock
C30_Witness ==
    /\ state_lock = "main" /\ at("main")[1] = "input"
    /\ at("ca1") = <<"acquire", StateLock>>
    /\ lk.owner["has_connected_lock"] = "ca2"
    /\ lk.owner["linac.epics_lock"] = "worker"

(* C31: a callback is never kept waiting by an operator prompt: while the  *)
(* main thread waits for the operator's answer inside check_state, no      *)
(* callback thread is waiting for the state lock.                          *)
C31_CallbackNotBlocked ==
    ~(/\ at("main")[1] = "input"
      /\ \E t \in CallbackThreads : at(t) = <<"acquire", StateLock>>)

\* the last value delivered for a signal is outside the bounds asked for
OutOfBounds(n) ==
    \/ tc[n].low # None /\ tc[n].last < tc[n].low
    \/ tc[n].high # None /\ tc[n].last > tc[n].high

(* C32 as stated: a signal with a threshold callback has a violation       *)
(* recorded iff its most recent value is below the low or above the high   *)
(* bound, so daq_good() holds again once every signal is back in range; a  *)
(* signal asked to be monitored with equal low and high bounds has its     *)
(* callback and is unsafe exactly when its value differs from the bound.   *)
C32_ThresholdTracksValue ==
    /\ \A n \in PVNames :
          /\ (tc[n].made = "cb" /\ tc[n].last # None) =>
                 (n \in DOMAIN threshold_exceeded <=> OutOfBounds(n))
          /\ (tc[n].made = "cb" /\ tc[n].last = None) => n \notin DOMAIN threshold_exceeded
          /\ (tc[n].made # "none" /\ tc[n].low # None /\ tc[n].low = tc[n].high) =>
                 tc[n].made = "cb"
    /\ (\A n \in PVNames : tc[n].last # None => ~OutOfBounds(n)) => daq_good

(* C33: before update_gset_max is first called gset_max equals gset_min;   *)
(* after it, gset_max is the smaller of the requested ceiling and          *)
(* GSET.DRVH whenever a ceiling was requested (at construction or in the   *)
(* call), so it does not exceed GSET.DRVH, and it is ODVH when no ceiling   *)
(* was requested.                                                          *)
C33_EffectiveCeiling ==
    /\ gm.pc = "constructed" => gm.gset_max = gm.gset_min
    /\ (gm.pc = "updated" /\ gm.gset_max_requested # None) =>
          /\ gm.gset_max = IF gm.gset_max_requested < gm.drvh
                           THEN gm.gset_max_requested ELSE gm.drvh
          /\ gm.gset_max <= gm.drvh
    /\ (gm.pc = "updated" /\ gm.gset_max_requested = None) => gm.gset_max = gm.odvh

\* a ceiling above GSET.DRVH was requested and update_gset_max has run
C33_Witness ==
    /\ gm.pc = "updated"
    /\ gm.gset_max_requested = 500
    /\ gm.gset_max = gm.drvh

(* C34 as stated: whatever the order of the connection and RF events, if   *)
(* the last event delivered for every signal is "connected" and "RF on"    *)
(* (or it has had no event), no signal contributes a violation and         *)
(* daq_good() is true.                                                     *)
C34_SettledEventsAreSafe ==
    (\A n \in PVNames : ev.last_conn[n] # "F" /\ ev.last_rf[n] # "F") => daq_good

(* C35 as stated: a violation that is active at a wake-up inside the       *)
(* window of monitor(duration > 0, user_input=False) makes monitor raise,  *)
(* even if it has cleared again before the window ends: monitor does not   *)
(* return normally after such a wake-up.                                   *)
C35_CheckedAtEachWakeUp ==
    ~(/\ mon.pc = "returned"
      /\ ~mon.user_input
      /\ mon.duration # None /\ mon.duration > 0
      /\ mon.woke_unsafe)

\* the cavity has written GSET and the monitor call that ends _set_gradient
\* has not returned yet
AwaitingCheck(c) ==
    \/ cav[c].pc \in {"ramp_watch", "ramp_wait", "ramp_prompt"}
    \/ cav[c].pc \in {"mon_first", "mon_last"} /\ cav[c].mon_ret = "after_put"

(* C36: every write to GSET during a ramp is followed by a non-interactive *)
(* check of the aggregator: after a write the cavity is waiting for that   *)
(* check, and while the aggregator is unsafe it stays waiting or           *)
(* set_gradient raises.  So once the aggregator is unsafe and stays        *)
(* unsafe, at most one further write is issued.                            *)
C36_CheckedAfterEveryWrite ==
    [][ /\ Len(writes'[UnderTest]) > Len(writes[UnderTest]) => AwaitingCheck(UnderTest)'
        /\ (AwaitingCheck(UnderTest) /\ ~daq_good) =>
              (AwaitingCheck(UnderTest)' \/ cav'[UnderTest].pc = "raised") ]_vars

\* a ramp of several steps raised in the check after its second write
C36_Witness ==
    /\ cav[UnderTest].pc = "raised"
    /\ cav[UnderTest].where = "monitor"
    /\ cav[UnderTest].mon_ret = "after_put"
    /\ Len(writes[UnderTest]) = 2
    /\ ~cav[UnderTest].final
    /\ ~daq_good

(* C37 as stated: update_cavity_gsets_parallel starts exactly one worker   *)
(* per device of the batch and returns only after each of them has         *)
(* finished: when it has returned, every device of the batch has had its   *)
(* worker, and that worker has finished.                                   *)
C37_WorkerPerDevice ==
    orc.pc = "returned" => \A c \in SeqToSet(orc.cavs) : worker_finished(c)

(* C37, amended: when the check at entry passes and the batch is not empty *)
(* a worker starts only for a device of the batch that has had none, and   *)
(* the call returns only after every device of the batch has had its       *)
(* worker and the worker has finished; when the check raises or the batch  *)
(* is empty no worker has started.  After the return no GSET is written,   *)
(* so no write of an apply batch follows the dispatch of a rollback batch. *)
C37_WorkersJoined ==
    [][ /\ \A c \in Cavities :
              (cav[c].pc = "idle" /\ cav'[c].pc # "idle") =>
                  (orc.pc = "collect" /\ c \in orc.pending)
        /\ orc'.pc = "returned" =>
              IF orc'.exc = "none"
              THEN \A c \in Cavities : IF c \in SeqToSet(orc'.cavs)
                                       THEN worker_finished(c)'
                                       ELSE cav'[c].pc = "idle"
              ELSE \A c \in Cavities : cav'[c].pc = "idle"
        /\ orc.pc = "returned" => (writes' = writes /\ gset' = gset) ]_vars

\* a batch of two or more has returned FAIL after its workers wrote GSET
C37_Witness ==
    /\ orc.pc = "returned"
    /\ orc.exc = "none"
    /\ orc.status = "FAIL"
    /\ Len(orc.cavs) >= 2
    /\ \E c \in SeqToSet(orc.cavs) : cav[c].pc = "raised"
    /\ \E c \in SeqToSet(orc.cavs) : cav[c].pc = "done" /\ Len(writes[c]) >= 1

C39_TimeoutOnlyIfUnrecovered ==
    \A c \in Cavities :
        (cav[c].pc = "raised" /\ cav[c].where \in {"jt", "pressure", "heater"}) =>
            ~cav[c].recovered

(* C40: when get_random_cavity_gradients_changes returns, old_gsets and    *)
(* new_gsets have exactly the selected cavities as keys, old_gsets holds   *)
(* the current gradient of each, the new gradient of each is the current   *)
(* one when no offset of the list is admissible and otherwise the current  *)
(* one plus an offset of the list with the sum strictly between gset_min   *)
(* and gset_max, and the list of each zone touched has 8 slots holding     *)
(* the new gradient at the position of each selected cavity and None       *)
(* elsewhere.                                                              *)
C40_ChangesWithinBand ==
    rs.pc = "returned" =>
        LET S == SeqToSet(rs.cavs)
            Admissible(c, o) ==
                gset[c] + o > cfg[c].gset_min /\ gset[c] + o < cfg[c].gset_max
        IN /\ DOMAIN rs.old_gsets = S
           /\ DOMAIN rs.new_gsets = S
           /\ \A c \in S :
                 /\ rs.old_gsets[c] = gset[c]
                 /\ \/ /\ rs.new_gsets[c] = gset[c]
                       /\ \A o \in OffsetList : ~Admissible(c, o)
                    \/ \E o \in OffsetList :
                          rs.new_gsets[c] = gset[c] + o /\ Admissible(c, o)
           /\ DOMAIN rs.zones_gsets = {zone_of(c) : c \in S}
           /\ \A z \in DOMAIN rs.zones_gsets :
                 /\ Len(rs.zones_gsets[z]) = ZoneSize
                 /\ \A i \in 1..ZoneSize :
                       IF \E c \in S : zone_of(c) = z /\ cavity_number(c) = i
                       THEN \A c \in S : (zone_of(c) = z /\ cavity_number(c) = i) =>
                                             rs.zones_gsets[z][i] = rs.new_gsets[c]
                       ELSE rs.zones_gsets[z][i] = None

\* two cavities of one zone were drawn: one has no admissible offset and is
\* left where it is, the other is moved
C40_Witness ==
    /\ rs.pc = "returned"
    /\ rs.cavs = <<"c2", "c3">>
    /\ rs.new_gsets["c2"] = rs.old_gsets["c2"]
    /\ rs.new_gsets["c3"] # rs.old_gsets["c3"]
    /\ rs.zones_gsets[zone_of("c2")][cavity_number("c3")] = rs.new_gsets["c3"]

====
